---- MODULE Spec2Model ----
(***************************************************************************)
(* A model of the WOOSAILibrary optimization core:                         *)
(*   - CacheManager          (woosailibrary/core/cache_manager.py)         *)
(*   - LightweightInputCompressor.compress                                 *)
(*                           (woosailibrary/core/lightweight_input.py)     *)
(*   - strategy selection    (core/output_optimizer.py, __init__.py)       *)
(* Each subsystem has its own specification over the shared variable list; *)
(* the variables of the other subsystems stay at their idle values.        *)
(***************************************************************************)
EXTENDS Integers, Sequences, FiniteSets, TLC

VARIABLES
    cache,                  \* self.cache: [entries, stats, config], entries in OrderedDict order
    disk,                   \* responses.json: <<>> (no file) or <<data>>
    max_size,               \* self.max_size
    ttl_hours,              \* self.ttl_hours
    auto_cleanup_interval,  \* self.auto_cleanup_interval
    operation_count,        \* self.operation_count
    now,                    \* datetime.now(), in hours
    restarts,               \* number of later CacheManager constructions on the same directory
    nops,                   \* history: number of cache calls made so far
    last,                   \* history: the last cache call and what it returned
    used,                   \* history: stored keys, least recently used first
    run,                    \* history: the sets made since the store was last empty
    cpc,                    \* compress: position in the pipeline
    ctext,                  \* compress: the input text
    cstate,                 \* compress: the locals of compress()
    cresult,                \* compress: the returned (text, info)
    sel,                    \* strategy selection: the last selection made
    det,                    \* _detect_abbreviations: the last call and its result
    params,                 \* get_optimized_params: the last call and its result
    kd,                     \* key derivation: two requests, their keys, and set-then-get
    pat,                    \* _compress_patterns and _compress_punctuation on a text
    ex,                     \* compress on a text that ends in a run of "?"
    num,                    \* NumberCompressor.compress on a text
    ld,                     \* construction on a given cache file, and one call after it
    woos,                   \* a WoosAI instance: its license, plan, counter and last chat
    dic,                    \* _apply_learning_dict on a text
    sh                      \* two CacheManager instances on one cache file

cacheVars == <<cache, disk, max_size, ttl_hours, auto_cleanup_interval,
               operation_count, now, restarts, nops, last, used, run>>
compVars == <<cpc, ctext, cstate, cresult>>
selVars == <<sel>>
optVars == <<det, params>>
pureVars == <<kd, pat, ex, num, ld, woos, dic, sh>>
vars == <<cache, disk, max_size, ttl_hours, auto_cleanup_interval,
          operation_count, now, restarts, nops, last, used, run,
          cpc, ctext, cstate, cresult, sel, det, params, kd, pat, ex, num, ld, woos,
          dic, sh>>

(***************************************************************************)
(* Bounds of the cache model: cache calls plus clock ticks in a behaviour, *)
(* the hours the clock runs, and the later constructions.                  *)
(***************************************************************************)
MaxSteps == 4
MaxTime == 1
MaxRestarts == 1

(***************************************************************************)
(* Requests and responses.                                                 *)
(***************************************************************************)
Absent == -1
DefaultTemperature == 7
DefaultMaxTokens == 2000
QueryLimit == 200

User(c) == [role |-> "user", content |-> c]
System(c) == [role |-> "system", content |-> c]

MessageLists ==
    { <<User(<<"a">>)>>,
      <<System(<<"s">>), User(<<"b">>)>>,
      <<User(<<"a">>), User(<<"b">>)>> }

(* A number passed as temperature is a Python int or a Python float: the   *)
(* two compare equal and json.dumps spells them differently (1 and 1.0).   *)
(* Temperatures are in tenths.                                             *)
Requests ==
    { [model |-> "gpt", messages |-> m, temperature |-> Absent, temperature_float |-> TRUE,
       max_tokens |-> Absent]
        : m \in MessageLists }

Responses ==
    { [id |-> 1, choices |-> <<"x">>],
      [id |-> 2, choices |-> <<"y", "z">>] }

JsonNumber(value, is_float) == << value, IF is_float THEN "float" ELSE "int" >>

(* The md5 digest is taken as one-to-one on the JSON text.                 *)
GenerateKey(req) ==
    << req.model, req.messages,
       IF req.temperature = Absent
           THEN JsonNumber(DefaultTemperature, TRUE)
           ELSE JsonNumber(req.temperature, req.temperature_float),
       IF req.max_tokens = Absent THEN DefaultMaxTokens ELSE req.max_tokens >>

ResponseDict(response) ==
    [ id |-> response.id,
      choices |-> IF Len(response.choices) > 0
                    THEN << response.choices[1] >>
                    ELSE << >> ]

UserContents(messages) ==
    LET users == SelectSeq(messages, LAMBDA m : m.role = "user")
    IN [i \in 1..Len(users) |-> users[i].content]

RECURSIVE Join(_)
Join(parts) ==
    IF parts = << >> THEN << >>
    ELSE IF Len(parts) = 1 THEN parts[1]
    ELSE parts[1] \o <<" ">> \o Join(Tail(parts))

QueryText(messages) ==
    LET q == Join(UserContents(messages))
    IN SubSeq(q, 1, IF Len(q) < QueryLimit THEN Len(q) ELSE QueryLimit)

(***************************************************************************)
(* CacheManager helpers.  A manager state s is                             *)
(* [cache, disk, operation_count].                                         *)
(***************************************************************************)
Keys(entries) == { entries[i].key : i \in 1..Len(entries) }

IndexOf(entries, key) == CHOOSE i \in 1..Len(entries) : entries[i].key = key

Without(entries, key) == SelectSeq(entries, LAMBDA e : e.key # key)

DefaultCache(ttl, ms) ==
    [ entries |-> << >>,
      stats |-> [hits |-> 0, misses |-> 0, saves |-> 0, evictions |-> 0,
                 total_cost_saved |-> 0],
      config |-> [ttl_hours |-> ttl, max_size |-> ms] ]

LoadCache(d, ttl, ms) == IF Len(d) > 0 THEN d[1] ELSE DefaultCache(ttl, ms)

SaveCache(s) == [s EXCEPT !.disk = << s.cache >>]

ExpiredInverted(entry, t) == t < entry.expires_at

Expired(entry, t) == t > entry.expires_at

CleanupExpired(s, t) ==
    LET kept == SelectSeq(s.cache.entries, LAMBDA e : ~Expired(e, t))
    IN IF Len(kept) < Len(s.cache.entries)
         THEN SaveCache([s EXCEPT !.cache.entries = kept])
         ELSE s

EvictNewest(c, ms) ==
    IF Len(c.entries) > ms
      THEN [c EXCEPT !.entries = SubSeq(c.entries, 1, ms),
                     !.stats.evictions = @ + (Len(c.entries) - ms)]
      ELSE c

RECURSIVE EnforceLoop(_, _)
EnforceLoop(c, ms) ==
    IF Len(c.entries) > ms
      THEN EnforceLoop([c EXCEPT !.entries = Tail(c.entries),
                                 !.stats.evictions = @ + 1], ms)
      ELSE c

EnforceSizeLimit(c, ms) == EnforceLoop(c, ms)

AutoCleanupCountOnly(s, t, interval) ==
    LET c == s.operation_count + 1
    IN IF c >= interval
         THEN [s EXCEPT !.operation_count = 0]
         ELSE [s EXCEPT !.operation_count = c]

AutoCleanup(s, t, interval) ==
    LET c == s.operation_count + 1
    IN IF c >= interval
         THEN [CleanupExpired(s, t) EXCEPT !.operation_count = 0]
         ELSE [s EXCEPT !.operation_count = c]

Assign(entries, entry) ==
    IF entry.key \in Keys(entries)
      THEN [entries EXCEPT ![IndexOf(entries, entry.key)] = entry]
      ELSE Append(entries, entry)

MoveToEndOmitted(entries, key) == entries

MoveToEnd(entries, key) ==
    Append(Without(entries, key), entries[IndexOf(entries, key)])

NewEntry(req, response, t, ttl) ==
    [ key |-> GenerateKey(req),
      response |-> ResponseDict(response),
      query |-> QueryText(req.messages),
      cached_at |-> t,
      expires_at |-> t + ttl,
      cost_saved |-> 0,
      access_count |-> 0 ]

(* get(): the manager state after the call and the value returned,        *)
(* << >> for None and <<response>> for a hit.                              *)
GetOp(s, req, t, interval) ==
    LET s1 == AutoCleanup(s, t, interval)
        key == GenerateKey(req)
    IN IF key \in Keys(s1.cache.entries)
         THEN LET entry == s1.cache.entries[IndexOf(s1.cache.entries, key)]
              IN IF Expired(entry, t)
                   THEN LET s2 == SaveCache([s1 EXCEPT !.cache.entries = Without(@, key)])
                        IN [ state |-> [s2 EXCEPT !.cache.stats.misses = @ + 1],
                             result |-> << >> ]
                   ELSE LET c2 == [s1.cache EXCEPT
                                     !.entries = MoveToEnd(@, key),
                                     !.stats.hits = @ + 1,
                                     !.stats.total_cost_saved = @ + entry.cost_saved]
                        IN [ state |-> SaveCache([s1 EXCEPT !.cache = c2]),
                             result |-> << entry.response >> ]
         ELSE [ state |-> [s1 EXCEPT !.cache.stats.misses = @ + 1],
                result |-> << >> ]

(* set(): the manager state after the call.                                *)
SetOp(s, req, response, t, ttl, ms, interval) ==
    LET s1 == AutoCleanup(s, t, interval)
        c2 == [s1.cache EXCEPT
                 !.entries = Assign(@, NewEntry(req, response, t, ttl)),
                 !.stats.saves = @ + 1]
        c3 == EnforceSizeLimit(c2, ms)
    IN SaveCache([s1 EXCEPT !.cache = c3])

(* The regular expressions of the model: a literal character, searched    *)
(* with re.IGNORECASE, and one pattern that re.compile rejects.            *)
Patterns == {"a", "B", "("}

ValidPattern(p) == p # "("

Lower(ch) == IF ch = "A" THEN "a" ELSE IF ch = "B" THEN "b" ELSE ch

Search(p, query) == \E i \in 1..Len(query) : Lower(query[i]) = Lower(p)

ClearByPatternFirst(s, p) ==
    IF ~ValidPattern(p)
      THEN [state |-> s, result |-> 0]
      ELSE LET hits == { i \in 1..Len(s.cache.entries) : Search(p, s.cache.entries[i].query) }
           IN  IF hits = {} THEN [state |-> s, result |-> 0]
               ELSE LET first == CHOOSE i \in hits : \A j \in hits : i <= j
                    IN  [ state |-> SaveCache([s EXCEPT !.cache.entries =
                                        Without(@, s.cache.entries[first].key)]),
                          result |-> 1 ]

ClearByPatternOp(s, p) ==
    IF ~ValidPattern(p)
      THEN [state |-> s, result |-> 0]
      ELSE LET kept == SelectSeq(s.cache.entries, LAMBDA e : ~Search(p, e.query))
               n == Len(s.cache.entries) - Len(kept)
           IN [ state |-> IF n > 0
                            THEN SaveCache([s EXCEPT !.cache.entries = kept])
                            ELSE s,
                result |-> n ]

ClearExpiredOp(s, t) ==
    LET s1 == CleanupExpired(s, t)
    IN [state |-> s1, result |-> Len(s.cache.entries) - Len(s1.cache.entries)]

HoursPerDay == 24

ClearOldEntriesOp(s, days, t) ==
    LET cutoff == t - days * HoursPerDay
        kept == SelectSeq(s.cache.entries, LAMBDA e : ~(e.cached_at < cutoff))
        n == Len(s.cache.entries) - Len(kept)
    IN [ state |-> IF n > 0
                     THEN SaveCache([s EXCEPT !.cache.entries = kept])
                     ELSE s,
         result |-> n ]

ClearOp(s) == SaveCache([s EXCEPT !.cache.entries = << >>])

(* __init__ on a directory that holds d: load, then drop what expired.     *)
Construct(d, ttl, ms, t) ==
    CleanupExpired([cache |-> LoadCache(d, ttl, ms), disk |-> d,
                    operation_count |-> 0], t)

(***************************************************************************)
(* LightweightInputCompressor.compress.  A text is modelled by the input   *)
(* it derives from, the stages that rewrote it and its token count         *)
(* (len(encoder.encode(text)), a function of the text); an input also has  *)
(* its length in characters and whether it is blank.  What a stage makes   *)
(* of a text, and the token count of that, are inputs of the model.  The   *)
(* lengths, times and savings_percent of the info record are left out.     *)
(***************************************************************************)
MaxTokens == 3
MaxReplacements == 1
MinLength == 15

InputTexts ==
    { [name |-> "", len |-> 0, blank |-> TRUE, tokens |-> 0] }
    \cup { [name |-> "spaces", len |-> l, blank |-> TRUE, tokens |-> 1] : l \in {3, 20} }
    \cup { [name |-> "chars", len |-> l, blank |-> FALSE, tokens |-> n] :
             l \in {14, 15, 40}, n \in 1..MaxTokens }

AsText(input) == [base |-> input, edits |-> {}, tokens |-> input.tokens]

EmptyString == AsText([name |-> "", len |-> 0, blank |-> TRUE, tokens |-> 0])

CountTokens(text) == text.tokens

EmptyResult ==
    [ success |-> FALSE, original_text |-> EmptyString,
      compressed_text |-> EmptyString, original_tokens |-> 0,
      final_tokens |-> 0, tokens_saved |-> 0, stages |-> << >> ]

(* What stage i may return for a text: the text itself with no            *)
(* replacement, or a rewritten text with some replacements.                *)
StageOutputs(text, i) ==
    { [text |-> text, replacements |-> 0] }
    \cup { [text |-> [text EXCEPT !.edits = @ \cup {i}, !.tokens = n],
            replacements |-> r] : n \in 0..MaxTokens, r \in 1..MaxReplacements }

ValidateKeepsText(before, before_tokens, out) ==
    LET stage_tokens == CountTokens(out.text)
    IN IF stage_tokens > before_tokens
         THEN [text |-> out.text, replacements |-> 0, tokens |-> before_tokens,
               tokens_saved |-> 0, rolled_back |-> TRUE]
         ELSE [text |-> out.text, replacements |-> out.replacements,
               tokens |-> stage_tokens, tokens_saved |-> before_tokens - stage_tokens,
               rolled_back |-> FALSE]

ValidateKeepsReplacements(before, before_tokens, out) ==
    LET stage_tokens == CountTokens(out.text)
    IN IF stage_tokens > before_tokens
         THEN [text |-> before, replacements |-> out.replacements, tokens |-> before_tokens,
               tokens_saved |-> 0, rolled_back |-> TRUE]
         ELSE [text |-> out.text, replacements |-> out.replacements,
               tokens |-> stage_tokens, tokens_saved |-> before_tokens - stage_tokens,
               rolled_back |-> FALSE]

ValidateNoRollback(before, before_tokens, out) ==
    LET stage_tokens == CountTokens(out.text)
    IN [text |-> out.text, replacements |-> out.replacements,
        tokens |-> stage_tokens, tokens_saved |-> before_tokens - stage_tokens,
        rolled_back |-> FALSE]

(* One stage's safety check: the stage's output, or on a rise of the      *)
(* token count the text and count from before the stage.                   *)
Validate(before, before_tokens, out) ==
    LET stage_tokens == CountTokens(out.text)
    IN IF stage_tokens > before_tokens
         THEN [text |-> before, replacements |-> 0, tokens |-> before_tokens,
               tokens_saved |-> before_tokens - before_tokens, rolled_back |-> TRUE]
         ELSE [text |-> out.text, replacements |-> out.replacements,
               tokens |-> stage_tokens, tokens_saved |-> before_tokens - stage_tokens,
               rolled_back |-> FALSE]

Skipped(input) == input.name = "" \/ input.blank \/ input.len < MinLength

NoLocals ==
    [ text |-> EmptyString, original_tokens |-> 0, tokens |-> 0, stages |-> << >> ]

FinalResult(input, locals) ==
    LET total_saved == locals.original_tokens - locals.tokens
    IN IF total_saved < 0
         THEN << AsText(input), EmptyResult >>
         ELSE << locals.text,
                 [ success |-> TRUE, original_text |-> AsText(input),
                   compressed_text |-> locals.text,
                   original_tokens |-> locals.original_tokens,
                   final_tokens |-> locals.tokens,
                   tokens_saved |-> total_saved,
                   stages |-> locals.stages ] >>

CompIdle ==
    /\ cpc = "idle"
    /\ ctext = [name |-> "", len |-> 0, blank |-> TRUE, tokens |-> 0]
    /\ cstate = NoLocals
    /\ cresult = << EmptyString, EmptyResult >>

(* compress(text) up to the first stage: the guards and the baseline.     *)
CompressStart(input) ==
    /\ cpc \in {"idle", "done"}
    /\ ctext' = input
    /\ IF Skipped(input)
         THEN /\ cresult' = << AsText(input), EmptyResult >>
              /\ cstate' = NoLocals
              /\ cpc' = "done"
         ELSE /\ cstate' = [ text |-> AsText(input),
                             original_tokens |-> CountTokens(AsText(input)),
                             tokens |-> CountTokens(AsText(input)),
                             stages |-> << >> ]
              /\ cpc' = "stage"
              /\ cresult' = << EmptyString, EmptyResult >>
    /\ UNCHANGED <<cacheVars, selVars, optVars, pureVars>>

(* Stages 1 to 4 in order: apply, count, validate, carry forward.         *)
CompressStage(out) ==
    /\ cpc = "stage"
    /\ LET i == Len(cstate.stages) + 1
           v == Validate(cstate.text, cstate.tokens, out)
       IN /\ out \in StageOutputs(cstate.text, i)
          /\ cstate' = [ cstate EXCEPT
                           !.text = v.text,
                           !.tokens = v.tokens,
                           !.stages = Append(@, [ tokens_saved |-> v.tokens_saved,
                                                  replacements |-> v.replacements,
                                                  rolled_back |-> v.rolled_back ]) ]
          /\ cpc' = IF i = 4 THEN "final" ELSE "stage"
    /\ UNCHANGED <<ctext, cresult>>
    /\ UNCHANGED <<cacheVars, selVars, optVars, pureVars>>

(* The final results, the final safety check and the return.              *)
CompressFinish ==
    /\ cpc = "final"
    /\ cresult' = FinalResult(ctext, cstate)
    /\ cpc' = "done"
    /\ UNCHANGED <<ctext, cstate>>
    /\ UNCHANGED <<cacheVars, selVars, optVars, pureVars>>

(***************************************************************************)
(* Strategy selection: OutputOptimizer.auto_select_strategy on a message   *)
(* of n tokens, and WoosAI._select_strategy on n tokens under a plan.      *)
(***************************************************************************)
MaxInputTokens == 61
StarterBelow == 18
ProBelow == 60

AutoSelectOffByOne(input_tokens, is_paid_user) ==
    IF input_tokens <= StarterBelow THEN "starter"
    ELSE IF input_tokens <= ProBelow THEN "pro"
    ELSE "premium"

AutoSelectStrategy(input_tokens, is_paid_user) ==
    IF input_tokens < StarterBelow THEN "starter"
    ELSE IF input_tokens < ProBelow THEN "pro"
    ELSE "premium"

SelectStrategyIgnoresPlan(plan, input_tokens) ==
    IF input_tokens < StarterBelow THEN "starter"
    ELSE IF input_tokens < ProBelow THEN "pro"
    ELSE "premium"

SelectStrategy(plan, input_tokens) ==
    IF plan = "free" THEN "starter"
    ELSE IF input_tokens < StarterBelow THEN "starter"
    ELSE IF input_tokens < ProBelow THEN "pro"
    ELSE "premium"

NoSelection ==
    [ op |-> "none", plan |-> "free", is_paid_user |-> FALSE, tokens |-> 0,
      strategy |-> "starter" ]

SelIdle == sel = NoSelection

OptimizerAutoSelect(n, paid) ==
    /\ sel' = [ op |-> "auto_select_strategy", plan |-> "free", is_paid_user |-> paid,
                tokens |-> n, strategy |-> AutoSelectStrategy(n, paid) ]
    /\ UNCHANGED <<cacheVars, compVars, optVars, pureVars>>

WoosAISelect(plan, n) ==
    /\ sel' = [ op |-> "_select_strategy", plan |-> plan, is_paid_user |-> FALSE,
                tokens |-> n, strategy |-> SelectStrategy(plan, n) ]
    /\ UNCHANGED <<cacheVars, compVars, optVars, pureVars>>

(***************************************************************************)
(* OutputOptimizer._detect_abbreviations.  A text is a sequence of         *)
(* characters over a small alphabet: four letters, the space, and four     *)
(* punctuation marks of which the code's patterns know "?", "(" and ")"    *)
(* and do not know "!".  Two entries of GENERAL_PUBLIC_ABBREVIATIONS are   *)
(* kept, spelled as in the list.                                           *)
(***************************************************************************)
MaxTextLen == 4

Letters == {"a", "i", "w", "f"}

Punctuation == {"!", "?", "(", ")"}

Alphabet == Letters \cup {" "} \cup Punctuation

Texts == UNION { [1..n -> Alphabet] : n \in 0..MaxTextLen }

GENERAL_PUBLIC_ABBREVIATIONS == { <<"A", "I">>, <<"W", "i", "F", "i">> }

Upper(ch) ==
    IF ch = "a" THEN "A" ELSE IF ch = "i" THEN "I"
    ELSE IF ch = "w" THEN "W" ELSE IF ch = "f" THEN "F" ELSE ch

UpperText(text) == [ i \in 1..Len(text) |-> Upper(text[i]) ]

Contains(text, pattern) ==
    \E i \in 0..(Len(text) - Len(pattern)) : SubSeq(text, i + 1, i + Len(pattern)) = pattern

StartsWith(text, prefix) ==
    Len(prefix) <= Len(text) /\ SubSeq(text, 1, Len(prefix)) = prefix

EndsWith(text, suffix) ==
    Len(suffix) <= Len(text) /\ SubSeq(text, Len(text) - Len(suffix) + 1, Len(text)) = suffix

Strip(text) ==
    LET inked == { i \in 1..Len(text) : text[i] # " " }
    IN  IF inked = {} THEN << >>
        ELSE SubSeq(text, CHOOSE i \in inked : \A j \in inked : i <= j,
                          CHOOSE i \in inked : \A j \in inked : i >= j)

BoundaryPatterns(abbr) ==
    { <<" ">> \o abbr \o <<" ">>,
      <<" ">> \o abbr \o <<"?">>,
      <<" ">> \o abbr \o <<".">>,
      <<" ">> \o abbr \o <<",">>,
      <<" ">> \o abbr \o <<":">>,
      <<" ">> \o abbr \o <<")">>,
      <<"(">> \o abbr \o <<" ">> }

DetectAbbreviations(text) ==
    LET text_normalized == <<" ">> \o UpperText(text) \o <<" ">>
    IN  \E abbr \in GENERAL_PUBLIC_ABBREVIATIONS :
            \/ \E pattern \in BoundaryPatterns(abbr) : Contains(text_normalized, pattern)
            \/ StartsWith(Strip(text_normalized), abbr \o <<" ">>)
            \/ EndsWith(Strip(text_normalized), <<" ">> \o abbr)

NoDetection == [ text |-> << >>, result |-> FALSE ]

(***************************************************************************)
(* OutputOptimizer.get_optimized_params.  A user message is known by the   *)
(* part of it the detector looks at, its token count, and whether compress *)
(* skips it (empty, blank or under 15 characters).  The processed message  *)
(* is the outcome record's compressed_text: the empty string for a skipped *)
(* message, otherwise a text of at most the message's tokens.              *)
(***************************************************************************)
TokenCounts == {0, StarterBelow - 1, StarterBelow, ProBelow - 1, ProBelow, MaxInputTokens}

MessageTexts == { <<"a", "i">>, <<"a", "i", "!">>, <<"w", "w">> }

Messages == [ text : MessageTexts, tokens : TokenCounts, skipped : BOOLEAN ]

Strategies == {"auto", "starter", "pro", "premium", "AUTO", "ultra"}

ProcessedTokens(message, compress_input) ==
    IF ~compress_input THEN {message.tokens}
    ELSE IF message.skipped THEN {CountTokens(EmptyResult.compressed_text)}
    ELSE { n \in TokenCounts : n <= message.tokens }

(* The texts get_optimized_params handles: the caller's message, the empty *)
(* string, and what the stages of compress made of the message.            *)
OriginalMessage(message) == [text |-> message.text, edited |-> FALSE, tokens |-> message.tokens]

EmptyMessage == [text |-> << >>, edited |-> FALSE, tokens |-> CountTokens(EmptyResult.compressed_text)]

(* input_compressor.compress(user_message): the text returned and the info *)
(* record's compressed_text; tokens is the count of the stages' text.      *)
CompressMessage(message, tokens) ==
    IF message.skipped
      THEN << OriginalMessage(message), [compressed_text |-> EmptyMessage] >>
      ELSE << [text |-> message.text, edited |-> TRUE, tokens |-> tokens],
              [compressed_text |-> [text |-> message.text, edited |-> TRUE,
                                    tokens |-> tokens]] >>

ProcessedMessage(message, compress_input, tokens) ==
    IF compress_input
      THEN CompressMessage(message, tokens)[2].compressed_text
      ELSE OriginalMessage(message)

GetSystemPrompt(strategy, use_abbreviations) ==
    IF strategy = "premium"
        THEN IF use_abbreviations THEN "premium: use abbreviations freely"
             ELSE "premium: explain an abbreviation at first use"
    ELSE IF strategy = "pro"
        THEN IF use_abbreviations THEN "pro: use abbreviations like the user"
             ELSE "pro: do not use abbreviations"
    ELSE "starter"

UseAbbreviationsAlways(selected_strategy, detected) == selected_strategy # "starter"

UseAbbreviations(selected_strategy, detected) ==
    IF selected_strategy = "starter" THEN FALSE
    ELSE IF selected_strategy = "pro" THEN detected
    ELSE TRUE

ValidateStrategyKeeps(selected_strategy, input_tokens, is_paid_user) == selected_strategy

ValidateStrategy(selected_strategy, input_tokens, is_paid_user) ==
    IF selected_strategy \notin {"starter", "pro", "premium"}
        THEN AutoSelectStrategy(input_tokens, is_paid_user)
        ELSE selected_strategy

OptimizedParams(message, strategy, compress_input, is_paid_user, input_tokens) ==
    LET uses_abbreviations == DetectAbbreviations(message.text)
        requested == IF strategy = "auto"
                         THEN AutoSelectStrategy(input_tokens, is_paid_user)
                         ELSE strategy
        selected_strategy == ValidateStrategy(requested, input_tokens, is_paid_user)
        use_abbreviations == UseAbbreviations(selected_strategy, uses_abbreviations)
    IN  [ op |-> "get_optimized_params",
          strategy |-> strategy,
          compress_input |-> compress_input,
          is_paid_user |-> is_paid_user,
          message |-> message,
          user_message |-> ProcessedMessage(message, compress_input, input_tokens),
          abbreviations_detected |-> uses_abbreviations,
          input_tokens |-> input_tokens,
          system_prompt |-> GetSystemPrompt(selected_strategy, use_abbreviations),
          strategy_used |-> selected_strategy,
          uses_abbreviations |-> use_abbreviations ]

NoParams ==
    [ op |-> "none", strategy |-> "auto", compress_input |-> FALSE, is_paid_user |-> FALSE,
      message |-> [ text |-> << >>, tokens |-> 0, skipped |-> TRUE ],
      user_message |-> EmptyMessage,
      abbreviations_detected |-> FALSE, input_tokens |-> 0, system_prompt |-> "starter",
      strategy_used |-> "starter", uses_abbreviations |-> FALSE ]

OptIdle == det = NoDetection /\ params = NoParams

(* The functions below keep no state between calls: a behaviour makes one *)
(* call of the function it is about.                                       *)
Detect(text) ==
    /\ det = NoDetection
    /\ det' = [ text |-> text, result |-> DetectAbbreviations(text) ]
    /\ UNCHANGED <<cacheVars, compVars, selVars, params, pureVars>>

GetOptimizedParams(message, strategy, compress_input, is_paid_user) ==
    /\ params.op = "none"
    /\ \E input_tokens \in ProcessedTokens(message, compress_input) :
           params' = OptimizedParams(message, strategy, compress_input, is_paid_user,
                                     input_tokens)
    /\ UNCHANGED <<cacheVars, compVars, selVars, det, pureVars>>

(***************************************************************************)
(* The CacheManager as a state machine.                                    *)
(***************************************************************************)
MaxSizeChoices == {0, 1, 2}
TtlChoices == {-1, 0, 1}
IntervalChoices == {1, 3}
DayChoices == {0, 1}

NoReq ==
    [model |-> "", messages |-> << >>, temperature |-> Absent, temperature_float |-> TRUE,
     max_tokens |-> Absent]

NoCall ==
    [ op |-> "init", req |-> NoReq, response |-> << >>, result |-> << >>,
      hit |-> FALSE, preExpired |-> FALSE, swept |-> {}, evicted |-> {},
      order |-> << >>,
      expires |-> 0, pattern |-> "", count |-> 0 ]

NoRun == [valid |-> FALSE, sets |-> << >>, ev0 |-> 0]

Self == [cache |-> cache, disk |-> disk, operation_count |-> operation_count]

Restrict(order, keys) == SelectSeq(order, LAMBDA k : k \in keys)

Touch(order, key) == Append(SelectSeq(order, LAMBDA k : k # key), key)

Install(s) ==
    /\ cache' = s.cache
    /\ disk' = s.disk
    /\ operation_count' = s.operation_count

CacheInit ==
    /\ max_size \in MaxSizeChoices
    /\ ttl_hours \in TtlChoices
    /\ auto_cleanup_interval \in IntervalChoices
    /\ now = 0
    /\ LET s == Construct(<< >>, ttl_hours, max_size, 0)
       IN /\ cache = s.cache
          /\ disk = s.disk
          /\ operation_count = s.operation_count
    /\ restarts = 0
    /\ nops = 0
    /\ last = NoCall
    /\ used = << >>
    /\ run = NoRun

Get(req) ==
    /\ nops + now < MaxSteps
    /\ LET r == GetOp(Self, req, now, auto_cleanup_interval)
           key == GenerateKey(req)
       IN /\ Install(r.state)
          /\ last' = [ NoCall EXCEPT
                         !.op = "get", !.req = req, !.result = r.result,
                         !.hit = (r.result # << >>),
                         !.swept = Keys(cache.entries) \
                                     Keys(AutoCleanup(Self, now, auto_cleanup_interval).cache.entries),
                         !.preExpired = (\E i \in 1..Len(cache.entries) :
                                            /\ cache.entries[i].key = key
                                            /\ cache.entries[i].expires_at < now) ]
          /\ used' = Restrict(IF r.result # << >> THEN Touch(used, key) ELSE used,
                              Keys(r.state.cache.entries))
    /\ nops' = nops + 1
    /\ run' = NoRun
    /\ UNCHANGED <<max_size, ttl_hours, auto_cleanup_interval, now, restarts>>
    /\ UNCHANGED <<compVars, selVars, optVars, pureVars>>

Set(req, response) ==
    /\ nops + now < MaxSteps
    /\ LET s1 == AutoCleanup(Self, now, auto_cleanup_interval)
           s2 == SetOp(Self, req, response, now, ttl_hours, max_size, auto_cleanup_interval)
           key == GenerateKey(req)
           order == Touch(Restrict(used, Keys(s1.cache.entries)), key)
           this == [key |-> key, expires_at |-> now + ttl_hours]
       IN /\ Install(s2)
          /\ last' = [ NoCall EXCEPT
                         !.op = "set", !.req = req, !.response = << response >>,
                         !.swept = Keys(cache.entries) \ Keys(s1.cache.entries),
                         !.evicted = (Keys(s1.cache.entries) \cup {key})
                                        \ Keys(s2.cache.entries),
                         !.order = order, !.expires = now + ttl_hours ]
          /\ used' = Restrict(order, Keys(s2.cache.entries))
          /\ run' = IF cache.entries = << >>
                      THEN [valid |-> TRUE, sets |-> << this >>,
                            ev0 |-> cache.stats.evictions]
                      ELSE IF run.valid /\ \A i \in 1..Len(run.sets) : run.sets[i].key # key
                        THEN [run EXCEPT !.sets = Append(@, this)]
                        ELSE NoRun
    /\ nops' = nops + 1
    /\ UNCHANGED <<max_size, ttl_hours, auto_cleanup_interval, now, restarts>>
    /\ UNCHANGED <<compVars, selVars, optVars, pureVars>>

Other(name, s) ==
    /\ nops + now < MaxSteps
    /\ Install(s)
    /\ last' = [NoCall EXCEPT !.op = name]
    /\ used' = Restrict(used, Keys(s.cache.entries))
    /\ run' = NoRun
    /\ nops' = nops + 1
    /\ UNCHANGED <<max_size, ttl_hours, auto_cleanup_interval, now, restarts>>
    /\ UNCHANGED <<compVars, selVars, optVars, pureVars>>

Clear == Other("clear", ClearOp(Self))

ClearByPattern(p) ==
    LET r == ClearByPatternOp(Self, p)
    IN  /\ nops + now < MaxSteps
        /\ Install(r.state)
        /\ last' = [NoCall EXCEPT !.op = "clear_by_pattern", !.pattern = p,
                                  !.count = r.result]
        /\ used' = Restrict(used, Keys(r.state.cache.entries))
        /\ run' = NoRun
        /\ nops' = nops + 1
        /\ UNCHANGED <<max_size, ttl_hours, auto_cleanup_interval, now, restarts>>
        /\ UNCHANGED <<compVars, selVars, optVars, pureVars>>

ClearExpired == Other("clear_expired", ClearExpiredOp(Self, now).state)

ClearOldEntries(days) ==
    Other("clear_old_entries", ClearOldEntriesOp(Self, days, now).state)

(* Time passes between two calls.                                          *)
Tick ==
    /\ now < MaxTime
    /\ nops + now < MaxSteps
    /\ now' = now + 1
    /\ UNCHANGED <<cache, disk, max_size, ttl_hours, auto_cleanup_interval,
                   operation_count, restarts, nops, last, used, run>>
    /\ UNCHANGED <<compVars, selVars, optVars, pureVars>>

(* The process ends and a new CacheManager is constructed on the same     *)
(* config_dir, possibly with another max_size.                             *)
Restart(ms) ==
    /\ restarts < MaxRestarts
    /\ nops + now < MaxSteps
    /\ LET s == Construct(disk, ttl_hours, ms, now)
       IN /\ Install(s)
          /\ used' = Restrict(used, Keys(s.cache.entries))
    /\ max_size' = ms
    /\ restarts' = restarts + 1
    /\ nops' = nops + 1
    /\ last' = [NoCall EXCEPT !.op = "restart"]
    /\ run' = NoRun
    /\ UNCHANGED <<ttl_hours, auto_cleanup_interval, now>>
    /\ UNCHANGED <<compVars, selVars, optVars, pureVars>>

(***************************************************************************)
(* _compress_patterns and _compress_punctuation on a text.  A text is a    *)
(* sequence of characters; "k" stands for the emoticon jamo of the first   *)
(* pattern, "x" for any character outside the patterns.  The replacement   *)
(* of a run is the captured mark, "*" and the length of the match.         *)
(***************************************************************************)
MaxPatternLen == 4
RunAtLeast == 4

Emoticons == {"k"}

Marks == {"!", "?", "."}

Dashes == {"~", "-", "="}

PatternAlphabet == {"k", "?", ".", "~", "-", "x"}

PatternTexts == UNION { [1..n -> PatternAlphabet] : n \in 0..MaxPatternLen }

(* Length of the longest prefix of text that is a repetition of its first *)
(* character (the group followed by back-references to it).               *)
RECURSIVE SameRun(_)
SameRun(text) ==
    IF Len(text) >= 2 /\ text[2] = text[1] THEN 1 + SameRun(Tail(text)) ELSE 1

(* Length of the longest prefix of text made of characters of class (the  *)
(* repeated group), whose last character is the one captured.              *)
RECURSIVE ClassRun(_, _)
ClassRun(text, class) ==
    IF Len(text) >= 1 /\ text[1] \in class THEN 1 + ClassRun(Tail(text), class) ELSE 0

MatchLength(text, class, identical) ==
    IF text[1] \notin class THEN 0
    ELSE IF identical THEN SameRun(text) ELSE ClassRun(text, class)

RECURSIVE SubRuns(_, _, _)
SubRuns(text, class, identical) ==
    IF text = << >> THEN [text |-> << >>, replacements |-> 0]
    ELSE LET n == MatchLength(text, class, identical)
         IN  IF n >= RunAtLeast
               THEN LET rest == SubRuns(SubSeq(text, n + 1, Len(text)), class, identical)
                    IN  [ text |-> << text[n], "*", ToString(n) >> \o rest.text,
                          replacements |-> rest.replacements + 1 ]
               ELSE LET skip == IF n = 0 THEN 1 ELSE n
                        rest == SubRuns(SubSeq(text, skip + 1, Len(text)), class, identical)
                    IN  [ text |-> SubSeq(text, 1, skip) \o rest.text,
                          replacements |-> rest.replacements ]

CompressPatterns(text) ==
    LET a == SubRuns(text, Emoticons, TRUE)
        b == SubRuns(a.text, Marks, TRUE)
        c == SubRuns(b.text, Dashes, FALSE)
    IN  [ text |-> c.text,
          replacements |-> a.replacements + b.replacements + c.replacements ]

(* re.sub of mark{2,3} by mark: leftmost matches, three characters when   *)
(* there are three.                                                        *)
RECURSIVE SubPunctuation(_, _)
SubPunctuation(text, mark) ==
    IF text = << >> THEN [text |-> << >>, replacements |-> 0]
    ELSE IF Len(text) >= 2 /\ text[1] = mark /\ text[2] = mark
      THEN LET n == IF Len(text) >= 3 /\ text[3] = mark THEN 3 ELSE 2
               rest == SubPunctuation(SubSeq(text, n + 1, Len(text)), mark)
           IN  [ text |-> << mark >> \o rest.text, replacements |-> rest.replacements + 1 ]
      ELSE LET rest == SubPunctuation(Tail(text), mark)
           IN  [ text |-> << text[1] >> \o rest.text, replacements |-> rest.replacements ]

PunctuationMarks == << "?", "!", "~", "-", "=" >>

RECURSIVE PunctuationFrom(_, _)
PunctuationFrom(r, i) ==
    IF i > Len(PunctuationMarks) THEN r
    ELSE LET one == SubPunctuation(r.text, PunctuationMarks[i])
         IN  PunctuationFrom([ text |-> one.text,
                               replacements |-> r.replacements + one.replacements ], i + 1)

CompressPunctuation(text) == PunctuationFrom([text |-> text, replacements |-> 0], 1)

NoPatterns ==
    [ op |-> "none", text |-> << >>, patterns |-> [text |-> << >>, replacements |-> 0],
      punctuation |-> [text |-> << >>, replacements |-> 0] ]

CompressRuns(text) ==
    /\ pat.op = "none"
    /\ pat' = [ op |-> "compress", text |-> text, patterns |-> CompressPatterns(text),
                punctuation |-> CompressPunctuation(text) ]
    /\ UNCHANGED <<cacheVars, compVars, selVars, optVars, kd, ex, num, ld, woos, dic, sh>>

(***************************************************************************)
(* NumberCompressor.compress.  A text is a sequence of characters, each    *)
(* with the sub-stage that wrote it (0: the caller).  The Korean           *)
(* characters are written by name: "jo", "eok", "man" (magnitude units),   *)
(* "won", "nyeon" (year), "wol" (month), "il" (day), "gae" (counter, as in *)
(* "gae" "wol": months), "do", "yo".  A text is made of at most MaxPieces  *)
(* pieces, each an optional number, an optional unit and an optional       *)
(* space; no number of the model has more than four digits.                *)
(***************************************************************************)
MaxPieces == 2

DigitChars == << "0", "1", "2", "3", "4", "5", "6", "7", "8", "9" >>

IsDigit(c) == \E d \in 1..10 : DigitChars[d] = c

DigitValue(c) == (CHOOSE d \in 1..10 : DigitChars[d] = c) - 1

NonWord == {" ", "'", "."}

Written(chars, stage) == [ i \in 1..Len(chars) |-> [c |-> chars[i], by |-> stage] ]

Chars(text) == [ i \in 1..Len(text) |-> text[i].c ]

NumberLiterals == { << >>, <<"1">>, <<"1", "0">>, <<"2", "0", "2", "4">> }

UnitWords ==
    { << >>, <<"nyeon">>, <<"wol">>, <<"il">>, <<"gae">>, <<"do">>, <<"eok">>,
      <<"man">>, <<"won">> }

Pieces == { n \o u \o sp : n \in NumberLiterals, u \in UnitWords, sp \in {<< >>, <<" ">>} }

RECURSIVE Concat(_)
Concat(seqs) == IF seqs = << >> THEN << >> ELSE seqs[1] \o Concat(Tail(seqs))

LongestDigitRun(chars) ==
    LET runs == { j - i + 1 : i \in 1..Len(chars), j \in 1..Len(chars) }
        ok(n) == \E i \in 1..(Len(chars) - n + 1) :
                     \A j \in i..(i + n - 1) : IsDigit(chars[j])
    IN  IF \E n \in runs : ok(n) THEN CHOOSE n \in runs : ok(n) /\ \A m \in runs : ok(m) => m <= n
        ELSE 0

NumberTexts ==
    { t \in { Concat(ps) : ps \in UNION { [1..n -> Pieces] : n \in 0..MaxPieces } } :
        LongestDigitRun(t) <= 4 }

(* The character at position i, or "" past the end.                        *)
At(text, i) == IF i >= 1 /\ i <= Len(text) THEN text[i].c ELSE ""

RECURSIVE DigitsFrom(_, _)
DigitsFrom(text, i) == IF IsDigit(At(text, i)) THEN 1 + DigitsFrom(text, i + 1) ELSE 0

RECURSIVE SpacesFrom(_, _)
SpacesFrom(text, i) == IF At(text, i) = " " THEN 1 + SpacesFrom(text, i + 1) ELSE 0

RECURSIVE Value(_)
Value(chars) ==
    IF chars = << >> THEN 0
    ELSE 10 * Value(SubSeq(chars, 1, Len(chars) - 1)) + DigitValue(chars[Len(chars)])

RECURSIVE Decimal(_)
Decimal(n) == IF n < 10 THEN << DigitChars[n + 1] >>
              ELSE Decimal(n \div 10) \o << DigitChars[(n % 10) + 1] >>

(* \d+(?:\.\d+)? followed by the literal: the length of the number part.   *)
NumberBefore(text, literal) ==
    LET n1 == DigitsFrom(text, 1)
        n2 == IF n1 > 0 /\ At(text, n1 + 1) = "." THEN DigitsFrom(text, n1 + 2) ELSE 0
        long == IF n2 > 0 THEN n1 + 1 + n2 ELSE n1
    IN  IF n1 = 0 THEN 0
        ELSE IF At(text, long + 1) \in literal THEN long
        ELSE IF At(text, n1 + 1) \in literal THEN n1
        ELSE 0

IsYear(text) ==
    /\ (At(text, 1) = "2" /\ At(text, 2) = "0") \/ (At(text, 1) = "1" /\ At(text, 2) = "9")
    /\ IsDigit(At(text, 3))
    /\ IsDigit(At(text, 4))
    /\ At(text, 5) = "nyeon"

(* The length of the match of a rule at the start of text (0: none), prev  *)
(* being the character before it.                                          *)
NumberMatch(rule, text, prev) ==
    CASE rule = "jo" ->
           LET n == NumberBefore(text, {"jo"}) IN IF n > 0 THEN n + 1 ELSE 0
      [] rule = "eok" ->
           LET n == NumberBefore(text, {"eok"}) IN IF n > 0 THEN n + 1 ELSE 0
      [] rule = "man" ->
           LET n == NumberBefore(text, {"man"}) IN IF n > 0 THEN n + 1 ELSE 0
      [] rule = "large" ->
           LET n == DigitsFrom(text, 1)
           IN  IF /\ n >= 4
                  /\ prev \in NonWord \cup {""}
                  /\ At(text, n + 1) \in NonWord \cup {""}
                 THEN n ELSE 0
      [] rule = "unit_won" ->
           LET n == NumberBefore(text, {"w", "e", "t"})
           IN  IF n > 0 /\ At(text, n + 2) = "won" THEN n + 2 ELSE 0
      [] rule = "won" ->
           LET n == DigitsFrom(text, 1)
           IN  IF n > 0 /\ At(text, n + 1) = "won" THEN n + 1 ELSE 0
      [] rule = "year_month" ->
           IF ~IsYear(text) THEN 0
           ELSE LET sp == SpacesFrom(text, 6)
                    d == DigitsFrom(text, 6 + sp)
                IN  IF d >= 2 /\ At(text, 6 + sp + 2) = "wol" THEN 5 + sp + 3
                    ELSE IF d >= 1 /\ At(text, 6 + sp + 1) = "wol" THEN 5 + sp + 2
                    ELSE 0
      [] rule = "year" ->
           IF ~IsYear(text) THEN 0 ELSE IF At(text, 6) = "do" THEN 6 ELSE 5
      [] rule = "months" ->
           LET n == DigitsFrom(text, 1)
           IN  IF n > 0 /\ At(text, n + 1) = "gae" /\ At(text, n + 2) = "wol"
                 THEN n + 2 ELSE 0
      [] rule = "days" ->
           LET n == DigitsFrom(text, 1)
           IN  IF n > 0 /\ At(text, n + 1) = "il" /\ At(text, n + 2) # "yo"
                 THEN n + 1 ELSE 0
      [] rule = "years" ->
           LET n == DigitsFrom(text, 1)
           IN  IF n > 0 /\ At(text, n + 1) = "nyeon" /\ At(text, n + 2) # "do"
                 THEN n + 1 ELSE 0

(* round-half-even of n / d, as the format "%.0f" gives it.                *)
RoundDiv(n, d) ==
    LET q == n \div d
        r == n % d
    IN  IF 2 * r > d \/ (2 * r = d /\ q % 2 = 1) THEN q + 1 ELSE q

(* replace_large's "%d" or "%.1f" of n / d followed by the unit letter.    *)
Scaled(n, d, letter) ==
    IF n % d = 0 THEN Decimal(n \div d) \o << letter >>
    ELSE LET tenths == RoundDiv(10 * n, d)
         IN  Decimal(tenths \div 10) \o << "." >> \o Decimal(tenths % 10) \o << letter >>

(* The branches for 10^12 and more (13 digits) are beyond the numbers of   *)
(* the model and are left out.                                             *)
HundredMillion == 100000000
TenThousand == 10000
Thousand == 1000

(* What a rule writes for the characters m it matched, and whether the     *)
(* replacement is counted.                                                 *)
Replacement(rule, m) ==
    LET head == SubSeq(m, 1, Len(m) - 1)
        same == [chars |-> m, counted |-> 0]
    IN  CASE rule = "jo" -> [chars |-> head \o <<"t">>, counted |-> 1]
          [] rule = "eok" -> [chars |-> head \o <<"e">>, counted |-> 1]
          [] rule = "man" -> [chars |-> head \o <<"w">>, counted |-> 1]
          [] rule = "large" ->
               LET n == Value(m)
               IN  IF n >= HundredMillion
                     THEN [chars |-> Scaled(n, HundredMillion, "e"), counted |-> 1]
                   ELSE IF n >= TenThousand
                     THEN [chars |-> Scaled(n, TenThousand, "w"), counted |-> 1]
                   ELSE IF n >= Thousand
                     THEN [chars |-> Decimal(n \div Thousand) \o <<"k">>, counted |-> 1]
                   ELSE same
          [] rule = "unit_won" -> [chars |-> head, counted |-> 1]
          [] rule = "won" ->
               LET n == Value(head)
               IN  IF n >= HundredMillion
                     THEN [chars |-> Decimal(RoundDiv(n, HundredMillion)) \o <<"e">>,
                           counted |-> 1]
                   ELSE IF n >= TenThousand
                     THEN [chars |-> Decimal(RoundDiv(n, TenThousand)) \o <<"w">>,
                           counted |-> 1]
                   ELSE IF n >= Thousand
                     THEN [chars |-> Decimal(RoundDiv(n, Thousand)) \o <<"k">>, counted |-> 1]
                   ELSE same
          [] rule = "year_month" ->
               LET month == SelectSeq(SubSeq(m, 6, Len(m) - 1), LAMBDA c : c # " ")
               IN  [chars |-> <<"'", m[3], m[4], ".">> \o month, counted |-> 1]
          [] rule = "year" -> [chars |-> <<"'", m[3], m[4]>>, counted |-> 1]
          [] rule = "months" -> [chars |-> SubSeq(m, 1, Len(m) - 2) \o <<"m", "o">>,
                                 counted |-> 1]
          [] rule = "days" -> [chars |-> head \o <<"d">>, counted |-> 1]
          [] rule = "years" -> [chars |-> head \o <<"y">>, counted |-> 1]

(* re.sub of one rule by sub-stage number stage: leftmost matches, left to *)
(* right.  again records the pairs <<earlier, later>> of sub-stages such    *)
(* that a match of the later took in characters the earlier had written.   *)
RECURSIVE ReSub(_, _, _, _)

(* A match m replaced by r, rest being re.sub of what follows it.          *)
ReSubReplace(stage, m, r, rest) ==
    [ text |-> (IF r.counted = 1 THEN Written(r.chars, stage) ELSE m) \o rest.text,
      count |-> r.counted + rest.count,
      again |-> rest.again \cup
                IF r.counted = 1
                  THEN { << m[i].by, stage >> : i \in
                           { j \in 1..Len(m) : m[j].by > 0 /\ m[j].by < stage } }
                  ELSE {} ]

(* No match at the first character: it is kept.                            *)
ReSubKeep(first, rest) ==
    [ text |-> << first >> \o rest.text, count |-> rest.count, again |-> rest.again ]

(* n is the length of the match at the start of text (0: none).            *)
ReSubAt(rule, stage, text, n) ==
    IF n > 0
      THEN ReSubReplace(stage, SubSeq(text, 1, n),
                        Replacement(rule, Chars(SubSeq(text, 1, n))),
                        ReSub(rule, stage, SubSeq(text, n + 1, Len(text)), text[n].c))
      ELSE ReSubKeep(text[1], ReSub(rule, stage, Tail(text), text[1].c))

ReSub(rule, stage, text, prev) ==
    IF text = << >> THEN [text |-> << >>, count |-> 0, again |-> {}]
    ELSE ReSubAt(rule, stage, text, NumberMatch(rule, text, prev))

(* The count and the pairs of one rule added to those of the rules before. *)
ReSubSum(r, one) ==
    [ text |-> one.text, count |-> r.count + one.count, again |-> r.again \cup one.again ]

RECURSIVE ReSubAll(_, _, _)
ReSubAll(rules, stage, r) ==
    IF rules = << >> THEN r
    ELSE ReSubAll(Tail(rules), stage, ReSubSum(r, ReSub(rules[1], stage, r.text, "")))

SubStages ==
    << << "jo", "eok", "man" >>,
       << "large" >>,
       << "unit_won", "won" >>,
       << "year_month", "year" >>,
       << "months", "days", "years" >> >>

RECURSIVE SubStagesFrom(_, _)
SubStagesFrom(r, stage) ==
    IF stage > Len(SubStages) THEN r
    ELSE SubStagesFrom(ReSubAll(SubStages[stage], stage, r), stage + 1)

(* No text of the model holds a percent word: _compress_percentages        *)
(* returns its input.                                                      *)
CompressPercentages(r) == r

Blank(chars) == \A i \in 1..Len(chars) : chars[i] = " "

NumberCompress(chars) ==
    IF Blank(chars)
      THEN [text |-> chars, replacements |-> 0, twice |-> {}]
      ELSE LET r == CompressPercentages(
                        SubStagesFrom([text |-> Written(chars, 0), count |-> 0,
                                       again |-> {}], 1))
           IN  [text |-> Chars(r.text), replacements |-> r.count, twice |-> r.again]

NoNumbers ==
    [ op |-> "none", text |-> << >>,
      result |-> [text |-> << >>, replacements |-> 0, twice |-> {}] ]

CompressNumbers(chars) ==
    /\ num.op = "none"
    /\ num' = [ op |-> "compress", text |-> chars, result |-> NumberCompress(chars) ]
    /\ UNCHANGED <<cacheVars, compVars, selVars, optVars, kd, pat, ex, ld, woos, dic, sh>>

(***************************************************************************)
(* compress on texts like the example of the specification: at least 15    *)
(* ordinary characters (written "x"), then up to MaxBody items, each the   *)
(* greeting that learning_dict shortens (written "annyeonghaseyo", short   *)
(* form "annyeong"), a comma or an "x", then a run of "?".  No text has a  *)
(* digit.  The encoder's count for a rewritten text is one less or one     *)
(* more than the count before.                                             *)
(***************************************************************************)
MaxBody == 2
ExampleTokens == 6

ExampleBodies == UNION { [1..n -> {"annyeonghaseyo", ",", "x"}] : n \in 0..MaxBody }

ExampleTexts ==
    { <<"x">> \o body \o [i \in 1..n |-> "?"] : body \in ExampleBodies, n \in 3..5 }

(* _apply_learning_dict.  A text is a sequence of units, each with the     *)
(* entry that wrote it (0: the caller); a unit is a word or syllable group *)
(* of the table written by name, a space, or "x" for anything else.  Eight *)
(* entries of learning_dict are kept, in the order of the table.           *)
MaxDictLen == 3

LearningDict ==
    << [long_form |-> <<"annyeonghaseyo">>, short_form |-> <<"annyeong">>],
       [long_form |-> <<"gamsahamnida">>, short_form |-> <<"gamsa">>],
       [long_form |-> <<"peuro", "geuraem">>, short_form |-> <<"peuro", "geuraem">>],
       [long_form |-> <<"peuro">>, short_form |-> <<"%">>],
       [long_form |-> <<"geuraem">>, short_form |-> <<"g">>],
       [long_form |-> <<"gwaenchanhnayo">>, short_form |-> <<"gwaenchanhayo">>],
       [long_form |-> <<"jeongmal", " ", "gamsahamnida">>, short_form |-> <<"gamsa">>],
       [long_form |-> <<"gwaenchanhayo">>, short_form |-> <<"gwaenchanha">>] >>

DictUnits ==
    {"annyeonghaseyo", "gamsahamnida", "peuro", "geuraem", "gwaenchanhnayo", "jeongmal",
     " ", "x"}

DictTexts == UNION { [1..n -> DictUnits] : n \in 0..MaxDictLen }

(* long_form starts at position i of text.                                 *)
StartsAt(text, long_form, i) ==
    /\ i + Len(long_form) - 1 <= Len(text)
    /\ \A k \in 1..Len(long_form) : text[i + k - 1].c = long_form[k]

(* long_form in text                                                       *)
InText(text, long_form) == \E i \in 1..Len(text) : StartsAt(text, long_form, i)

(* text.replace(long_form, short_form) by entry number entry: the matches  *)
(* from the left, not overlapping.  chains holds <<earlier, entry>> for    *)
(* every unit of a match that the earlier entry had written.               *)
RECURSIVE StrReplace(_, _, _)

StrReplaceMatch(text, entry, rest) ==
    [ text |-> Written(LearningDict[entry].short_form, entry) \o rest.text,
      chains |-> rest.chains \cup
                 { << text[k].by, entry >> :
                     k \in { j \in 1..Len(LearningDict[entry].long_form) : text[j].by > 0 } } ]

StrReplaceKeep(first, rest) == [ text |-> << first >> \o rest.text, chains |-> rest.chains ]

StrReplace(text, entry, i) ==
    IF text = << >> THEN [text |-> << >>, chains |-> {}]
    ELSE IF StartsAt(text, LearningDict[entry].long_form, 1)
      THEN StrReplaceMatch(text, entry,
               StrReplace(SubSeq(text, Len(LearningDict[entry].long_form) + 1, Len(text)),
                          entry, i))
      ELSE StrReplaceKeep(text[1], StrReplace(Tail(text), entry, i))

DictReplaced(r, one) ==
    [ text |-> one.text, replacements |-> r.replacements + 1,
      chains |-> r.chains \cup one.chains ]

(* The loop over learning_dict.items() from entry number entry on.         *)
RECURSIVE DictFrom(_, _)
DictFrom(r, entry) ==
    IF entry > Len(LearningDict) THEN r
    ELSE IF InText(r.text, LearningDict[entry].long_form)
      THEN DictFrom(DictReplaced(r, StrReplace(r.text, entry, 1)), entry + 1)
      ELSE DictFrom(r, entry + 1)

DictResult(r) == [text |-> Chars(r.text), replacements |-> r.replacements, chains |-> r.chains]

ApplyLearningDict(text) ==
    DictResult(DictFrom([text |-> Written(text, 0), replacements |-> 0, chains |-> {}], 1))

NoDict ==
    [ op |-> "none", text |-> << >>,
      result |-> [text |-> << >>, replacements |-> 0, chains |-> {}] ]

ApplyDict(text) ==
    /\ dic.op = "none"
    /\ dic' = [op |-> "_apply_learning_dict", text |-> text, result |-> ApplyLearningDict(text)]
    /\ UNCHANGED <<cacheVars, compVars, selVars, optVars, kd, pat, ex, num, ld, woos, sh>>

CompressNumbersStage(text) ==
    LET r == NumberCompress(text)
    IN  [ text |-> r.text, replacements |-> r.replacements ]

(* A stage's output with the count the encoder gives it.                   *)
Encoded(before, out, delta) ==
    [ text |-> [ chars |-> out.text,
                 tokens |-> IF out.text = before.chars THEN before.tokens
                            ELSE before.tokens + delta ],
      replacements |-> out.replacements ]

(* One stage of compress: its output is validated against the text and   *)
(* the count that reached it.                                              *)
ExampleStage(v, out, delta) == Validate(v.text, v.tokens, Encoded(v.text, out, delta))

ExampleInput(chars) ==
    LET text0 == [ chars |-> chars, tokens |-> ExampleTokens ]
    IN  [ text |-> text0, tokens |-> CountTokens(text0) ]

ExampleResult(chars, v1, v2, v3, v4) ==
    [ op |-> "compress", input |-> chars, stages |-> << v1, v2, v3, v4 >>,
      text |-> v4.text.chars ]

ExamplePunctuation(chars, deltas, v1, v2, v3) ==
    ExampleResult(chars, v1, v2, v3,
                  ExampleStage(v3, CompressPunctuation(v3.text.chars), deltas[4]))

ExamplePatterns(chars, deltas, v1, v2) ==
    ExamplePunctuation(chars, deltas, v1, v2,
                       ExampleStage(v2, CompressPatterns(v2.text.chars), deltas[3]))

ExampleNumbers(chars, deltas, v1) ==
    ExamplePatterns(chars, deltas, v1,
                    ExampleStage(v1, CompressNumbersStage(v1.text.chars), deltas[2]))

ExamplePipeline(chars, deltas) ==
    ExampleNumbers(chars, deltas,
                   ExampleStage(ExampleInput(chars), ApplyLearningDict(chars), deltas[1]))

NoExample == [ op |-> "none", input |-> << >>, stages |-> << >>, text |-> << >> ]

CompressExample(chars, deltas) ==
    /\ ex.op = "none"
    /\ ex' = ExamplePipeline(chars, deltas)
    /\ UNCHANGED <<cacheVars, compVars, selVars, optVars, kd, pat, num, ld, woos, dic, sh>>

(***************************************************************************)
(* Key derivation: _generate_key on two requests, and a set of the first   *)
(* followed by a get of the second on a freshly constructed cache.         *)
(***************************************************************************)
KeyTemperatures ==
    { [temperature |-> Absent, temperature_float |-> TRUE],
      [temperature |-> DefaultTemperature, temperature_float |-> TRUE],
      [temperature |-> 10, temperature_float |-> TRUE],
      [temperature |-> 10, temperature_float |-> FALSE] }

KeyRequests ==
    { [model |-> model, messages |-> m, temperature |-> t.temperature,
       temperature_float |-> t.temperature_float, max_tokens |-> mt]
        : model \in {"gpt", "gpt-mini"},
          m \in { <<User(<<"a">>)>>, <<User(<<"a">>), User(<<"b">>)>> },
          t \in KeyTemperatures,
          mt \in {Absent, DefaultMaxTokens, 100} }

SetThenGet(a, b) ==
    LET fresh == Construct(<< >>, 1, 2, 0)
        response == [id |-> 1, choices |-> <<"x">>]
        stored == SetOp(fresh, a, response, 0, 1, 2, 3)
    IN  GetOp(stored, b, 0, 3).result

(***************************************************************************)
(* Construction on a directory whose cache file was not written by this    *)
(* class.  A file is unparsable, or a JSON object that has or lacks each   *)
(* of "entries", "stats" and "config"; an entry of the file has an         *)
(* expires_at that datetime.fromisoformat reads or rejects.  A call ends   *)
(* "ok" or with the name of the exception it raises.                       *)
(***************************************************************************)
MaxFileEntries == 2

FileEntryKinds == {"live", "expired", "unreadable"}

FileEntry(req, kind) ==
    [ key |-> GenerateKey(req),
      response |-> [id |-> 1, choices |-> <<"x">>],
      query |-> QueryText(req.messages),
      cached_at |-> -2,
      expires_at |-> IF kind = "expired" THEN -1 ELSE 1,
      cost_saved |-> 0,
      access_count |-> 0,
      readable |-> kind # "unreadable" ]

FileEntrySeqs ==
    UNION { { [i \in 1..n |-> FileEntry(reqs[i], kinds[i])] :
                reqs \in { r \in [1..n -> Requests] :
                             \A i \in 1..n, j \in 1..n : r[i] = r[j] => i = j },
                kinds \in [1..n -> FileEntryKinds] }
            : n \in 0..MaxFileEntries }

Unparsable ==
    [ parsable |-> FALSE, has_entries |-> FALSE, has_stats |-> FALSE,
      has_config |-> FALSE, entries |-> << >> ]

Files ==
    {Unparsable} \cup
    UNION { { [ parsable |-> TRUE, has_entries |-> he, has_stats |-> hs,
                has_config |-> hc, entries |-> es ]
                : es \in IF he THEN FileEntrySeqs ELSE { << >> } }
            : he \in BOOLEAN, hs \in BOOLEAN, hc \in BOOLEAN }

(* _load_cache: the default structure when json.load raises, else the      *)
(* parsed data as it is.                                                   *)
LoadFile(file) ==
    IF file.parsable
      THEN file
      ELSE [ parsable |-> TRUE, has_entries |-> TRUE, has_stats |-> TRUE,
             has_config |-> TRUE, entries |-> << >> ]

StoredEntry(e) ==
    [ key |-> e.key, response |-> e.response, query |-> e.query,
      cached_at |-> e.cached_at, expires_at |-> e.expires_at,
      cost_saved |-> e.cost_saved, access_count |-> e.access_count ]

NoManager == [cache |-> DefaultCache(1, 2), disk |-> << >>, operation_count |-> 0]

(* __init__: _load_cache, then _cleanup_expired, which subscripts          *)
(* self.cache["entries"] and parses every entry's expires_at.              *)
ConstructOnFile(file, ttl, ms, t) ==
    LET data == LoadFile(file)
    IN  IF ~data.has_entries
          THEN [outcome |-> "KeyError", self |-> NoManager, has_stats |-> FALSE]
        ELSE IF \E i \in 1..Len(data.entries) : ~data.entries[i].readable
          THEN [outcome |-> "ValueError", self |-> NoManager, has_stats |-> FALSE]
        ELSE [ outcome |-> "ok",
               self |-> CleanupExpired(
                            [ cache |-> [ DefaultCache(ttl, ms) EXCEPT !.entries =
                                            [i \in 1..Len(data.entries) |->
                                                StoredEntry(data.entries[i])] ],
                              disk |-> << >>, operation_count |-> 0 ], t),
               has_stats |-> data.has_stats ]

(* get and set on the manager so constructed: each path of both subscripts *)
(* self.cache["stats"].                                                    *)
GetOnLoaded(m, req, t, interval) ==
    IF ~m.has_stats
      THEN [m EXCEPT !.outcome = "KeyError"]
      ELSE [m EXCEPT !.self = GetOp(m.self, req, t, interval).state]

SetOnLoaded(m, req, response, t, ttl, ms, interval) ==
    IF ~m.has_stats
      THEN [m EXCEPT !.outcome = "KeyError"]
      ELSE [m EXCEPT !.self = SetOp(m.self, req, response, t, ttl, ms, interval)]

NoLoad ==
    [ op |-> "none", file |-> Unparsable, outcome |-> "ok", self |-> NoManager,
      has_stats |-> FALSE ]

LoadResult(op, file, m) ==
    [ op |-> op, file |-> file, outcome |-> m.outcome, self |-> m.self,
      has_stats |-> m.has_stats ]

ConstructFile(file) ==
    /\ ld.op = "none"
    /\ ld' = LoadResult("__init__", file, ConstructOnFile(file, 1, 2, 0))
    /\ UNCHANGED <<cacheVars, compVars, selVars, optVars, kd, pat, ex, num, woos, dic, sh>>

GetLoaded(req) ==
    /\ ld.op = "__init__"
    /\ ld.outcome = "ok"
    /\ ld' = LoadResult("get", ld.file, GetOnLoaded(ld, req, 0, 3))
    /\ UNCHANGED <<cacheVars, compVars, selVars, optVars, kd, pat, ex, num, woos, dic, sh>>

SetLoaded(req, response) ==
    /\ ld.op = "__init__"
    /\ ld.outcome = "ok"
    /\ ld' = LoadResult("set", ld.file, SetOnLoaded(ld, req, response, 0, 1, 2, 3))
    /\ UNCHANGED <<cacheVars, compVars, selVars, optVars, kd, pat, ex, num, woos, dic, sh>>

(***************************************************************************)
(* Two CacheManager instances constructed on the same config_dir.  Each    *)
(* holds its own self.cache, loaded once by __init__; responses.json is    *)
(* what the last _save_cache wrote.  The clock stays at 0, ttl_hours is 1  *)
(* and max_size 3.                                                         *)
(***************************************************************************)
MaxSharedOps == 4

Managers == {1, 2}

NotConstructed == [constructed |-> FALSE, cache |-> DefaultCache(1, 3), operation_count |-> 0]

NoShared ==
    [ disk |-> << >>, self |-> [i \in Managers |-> NotConstructed], n |-> 0,
      op |-> "none", who |-> 0, req |-> NoReq, response |-> << >>, result |-> << >> ]

(* Instance m as the state the cache operations work on: its own           *)
(* self.cache, and the file as it is now.                                  *)
OnStore(m, d) == [cache |-> m.cache, disk |-> d, operation_count |-> m.operation_count]

SharedStep(w, i, s, op, req, response, result) ==
    [ disk |-> s.disk,
      self |-> [w.self EXCEPT ![i] = [constructed |-> TRUE, cache |-> s.cache,
                                      operation_count |-> s.operation_count]],
      n |-> w.n + 1, op |-> op, who |-> i, req |-> req, response |-> response,
      result |-> result ]

SharedConstruct(i) ==
    /\ sh.n < MaxSharedOps
    /\ ~sh.self[i].constructed
    /\ sh' = SharedStep(sh, i, Construct(sh.disk, 1, 3, 0), "__init__", NoReq, << >>, << >>)
    /\ UNCHANGED <<cacheVars, compVars, selVars, optVars, kd, pat, ex, num, ld, woos, dic>>

SharedSet(i, req, response) ==
    /\ sh.n < MaxSharedOps
    /\ sh.self[i].constructed
    /\ sh' = SharedStep(sh, i, SetOp(OnStore(sh.self[i], sh.disk), req, response, 0, 1, 3, 3),
                        "set", req, << response >>, << >>)
    /\ UNCHANGED <<cacheVars, compVars, selVars, optVars, kd, pat, ex, num, ld, woos, dic>>

SharedGot(w, i, got, req) == SharedStep(w, i, got.state, "get", req, << >>, got.result)

SharedGet(i, req) ==
    /\ sh.n < MaxSharedOps
    /\ sh.self[i].constructed
    /\ sh' = SharedGot(sh, i, GetOp(OnStore(sh.self[i], sh.disk), req, 0, 3), req)
    /\ UNCHANGED <<cacheVars, compVars, selVars, optVars, kd, pat, ex, num, ld, woos, dic>>

SharedClear(i) ==
    /\ sh.n < MaxSharedOps
    /\ sh.self[i].constructed
    /\ sh' = SharedStep(sh, i, ClearOp(OnStore(sh.self[i], sh.disk)), "clear", NoReq, << >>,
                        << >>)
    /\ UNCHANGED <<cacheVars, compVars, selVars, optVars, kd, pat, ex, num, ld, woos, dic>>

(***************************************************************************)
(* WoosAI: the license key, the plan, the request counter and chat.  A     *)
(* license key is the sequence of its "-"-separated parts; << >> is no     *)
(* license.  A date is a day number (today is 0) and datetime.now() is a   *)
(* day and whether midnight has passed; strftime("%Y%m%d") of a day and    *)
(* strptime of what it wrote are DateText and ParseDate.  The first six    *)
(* hex digits of the sha256 digest are taken as one-to-one on the plans    *)
(* and dates of the model; hex digits are upper or lower case.             *)
(***************************************************************************)
MaxDays == 2

NoLicense == << >>

DateText(n) == [text |-> "date", day |-> n]

NotADate == [text |-> "junk", day |-> 0]

(* datetime.strptime(expiry, "%Y%m%d"): midnight of the day, or ValueError. *)
ParseDate(expiry) ==
    IF expiry.text = "date" THEN [ok |-> TRUE, day |-> expiry.day]
    ELSE [ok |-> FALSE, day |-> 0]

Nows == [day : {0}, later : BOOLEAN]

(* datetime.now() > expiry_date, expiry_date being a midnight.             *)
After(at, midnight) == at.day > midnight \/ (at.day = midnight /\ at.later)

PlanUpper(plan) == IF plan = "premium" THEN "PREMIUM" ELSE plan

PlanLower(plan) ==
    IF plan = "PREMIUM" THEN "premium" ELSE IF plan = "FREE" THEN "free" ELSE plan

GenerateSignature(plan, expiry) == [plan |-> plan, expiry |-> expiry, upper |-> TRUE]

SignatureUpper(signature) == [signature EXCEPT !.upper = TRUE]

SignatureLower(signature) == [signature EXCEPT !.upper = FALSE]

(* LicenseGenerator.generate at the time now.                              *)
Generate(plan, duration_days, at) ==
    LET expiry_str == DateText(at.day + duration_days)
    IN  << "WOOSAI", plan, expiry_str, GenerateSignature(plan, expiry_str) >>

ExpiryParts == { DateText(d) : d \in -1..MaxDays } \cup {NotADate}

LicenseKeys ==
    {NoLicense} \cup
    { << prefix, plan, expiry, signature >> :
        prefix \in {"WOOSAI", "OTHER"},
        plan \in {"PREMIUM", "premium", "FREE", "GOLD"},
        expiry \in ExpiryParts,
        signature \in UNION { { GenerateSignature("PREMIUM", e),
                                SignatureLower(GenerateSignature("PREMIUM", e)),
                                GenerateSignature("FREE", e) } : e \in {DateText(0), DateText(1)} } }
    \cup { << "WOOSAI", "PREMIUM", DateText(1) >>,
           Generate("PREMIUM", 1, [day |-> 0, later |-> TRUE]) \o << "X" >> }

(* _verify_license: (plan, license_info), license_info kept as whether it  *)
(* is set.                                                                 *)
VerifyLicense(license_key, at) ==
    IF Len(license_key) # 4 THEN [plan |-> "free", licensed |-> FALSE]
    ELSE LET plan == PlanUpper(license_key[2])
             expiry == license_key[3]
         IN  IF license_key[1] # "WOOSAI" THEN [plan |-> "free", licensed |-> FALSE]
             ELSE IF plan \notin {"FREE", "PREMIUM"} THEN [plan |-> "free", licensed |-> FALSE]
             ELSE IF ~ParseDate(expiry).ok THEN [plan |-> "free", licensed |-> FALSE]
             ELSE IF After(at, ParseDate(expiry).day)
               THEN [plan |-> "free", licensed |-> FALSE]
             ELSE IF SignatureUpper(license_key[4]) # GenerateSignature(plan, expiry)
               THEN [plan |-> "free", licensed |-> FALSE]
             ELSE [plan |-> PlanLower(plan), licensed |-> TRUE]

NoChat ==
    [ message |-> [tokens |-> 0, compressed |-> 0], error |-> FALSE, content |-> "",
      strategy |-> "", input_tokens |-> 0, compressed |-> FALSE, llm |-> FALSE,
      max_tokens |-> 0, temperature |-> 0 ]

NoWoos ==
    [ op |-> "none", key |-> NoLicense, now |-> [day |-> 0, later |-> FALSE],
      generated |-> << >>, plan |-> "free", licensed |-> FALSE,
      request_count |-> 0, calls |-> 0, llm_calls |-> 0, chat |-> NoChat ]

(* __init__: the plan is free without a license key.                       *)
WoosAIInit(license_key, at) ==
    LET v == IF license_key # NoLicense THEN VerifyLicense(license_key, at)
             ELSE [plan |-> "free", licensed |-> FALSE]
    IN  [ NoWoos EXCEPT !.op = "__init__", !.key = license_key, !.now = at,
                        !.plan = v.plan, !.licensed = v.licensed ]

StartWoosAI(license_key, at) ==
    /\ woos.op = "none"
    /\ woos' = WoosAIInit(license_key, at)
    /\ UNCHANGED <<cacheVars, compVars, selVars, optVars, kd, pat, ex, num, ld, dic, sh>>

(* A key is generated and a WoosAI is constructed with it at once.         *)
GenerateAndStart(plan, duration_days, at) ==
    /\ woos.op = "none"
    /\ woos' = [ WoosAIInit(Generate(plan, duration_days, at), at)
                   EXCEPT !.generated = << plan, duration_days >> ]
    /\ UNCHANGED <<cacheVars, compVars, selVars, optVars, kd, pat, ex, num, ld, dic, sh>>

(* chat.  A message is the number of tokens the encoder gives it and the  *)
(* number it gives the text compress returns for it; whether the client's  *)
(* call returns or raises is an input.  calls and llm_calls are history:   *)
(* the chat calls made and those that reached the client.                  *)
FreeMonthlyLimit == 1000
PremiumMonthlyLimit == 50000
MaxChats == 2
MaxOver == 2

MonthlyLimit(plan) == IF plan = "free" THEN FreeMonthlyLimit ELSE PremiumMonthlyLimit

ChatMessages ==
    { [tokens |-> n, compressed |-> c] :
        n \in {StarterBelow - 1, StarterBelow, ProBelow, ProBelow + 1},
        c \in {StarterBelow - 1, ProBelow - 1, ProBelow + 1} } \
    { m \in [tokens : 0..(ProBelow + 1), compressed : 0..(ProBelow + 1)] :
        m.compressed > m.tokens }

OverLimitLate(count, limit) == count > limit + 1

OverLimit(count, limit) == count > limit

ChatParameters(strategy) ==
    IF strategy = "starter" THEN [max_tokens |-> 2000, temperature |-> 7]
    ELSE IF strategy = "pro" THEN [max_tokens |-> 1300, temperature |-> 5]
    ELSE [max_tokens |-> 700, temperature |-> 3]

(* The instance after chat(message, compress), with the result in chat.    *)
ChatOp(w, message, compress, llm_ok) ==
    IF OverLimit(w.request_count + 1, MonthlyLimit(w.plan))
      THEN [ w EXCEPT !.op = "chat", !.request_count = @ + 1, !.calls = @ + 1,
                      !.chat = [NoChat EXCEPT !.message = message, !.error = TRUE,
                                              !.content = "None"] ]
      ELSE LET input_tokens == IF compress THEN message.compressed ELSE message.tokens
               strategy == SelectStrategy(w.plan, input_tokens)
           IN  [ w EXCEPT !.op = "chat", !.request_count = @ + 1, !.calls = @ + 1,
                          !.llm_calls = @ + 1,
                          !.chat = [ message |-> message,
                                     error |-> ~llm_ok,
                                     content |-> IF llm_ok THEN "text" ELSE "None",
                                     strategy |-> strategy,
                                     input_tokens |-> input_tokens,
                                     compressed |-> compress,
                                     llm |-> TRUE,
                                     max_tokens |-> ChatParameters(strategy).max_tokens,
                                     temperature |-> ChatParameters(strategy).temperature ] ]

Chat(message, compress, llm_ok) ==
    /\ woos.op # "none"
    /\ woos' = ChatOp(woos, message, compress, llm_ok)
    /\ UNCHANGED <<cacheVars, compVars, selVars, optVars, kd, pat, ex, num, ld, dic, sh>>

NoKeys ==
    [ op |-> "none", a |-> NoReq, b |-> NoReq, key_a |-> GenerateKey(NoReq),
      key_b |-> GenerateKey(NoReq), result |-> << >> ]

PureIdle ==
    /\ kd = NoKeys /\ pat = NoPatterns /\ ex = NoExample /\ num = NoNumbers /\ ld = NoLoad
    /\ woos = NoWoos
    /\ dic = NoDict
    /\ sh = NoShared

DeriveKeys(a, b) ==
    /\ kd.op = "none"
    /\ kd' = [ op |-> "_generate_key", a |-> a, b |-> b, key_a |-> GenerateKey(a),
               key_b |-> GenerateKey(b), result |-> SetThenGet(a, b) ]
    /\ UNCHANGED <<cacheVars, compVars, selVars, optVars, pat, ex, num, ld, woos, dic, sh>>

Init == CacheInit /\ CompIdle /\ SelIdle /\ OptIdle /\ PureIdle

Next ==
    \/ \E req \in Requests : Get(req)
    \/ \E req \in Requests, response \in Responses : Set(req, response)
    \/ Clear
    \/ \E p \in Patterns : ClearByPattern(p)
    \/ ClearExpired
    \/ \E days \in DayChoices : ClearOldEntries(days)
    \/ Tick
    \/ \E ms \in MaxSizeChoices : Restart(ms)

Spec == Init /\ [][Next]_vars

(***************************************************************************)
(* Claims about the CacheManager.                                          *)
(***************************************************************************)
EntryOf(entries, key) == entries[IndexOf(entries, key)]

KeySeq(entries) == [i \in 1..Len(entries) |-> entries[i].key]

Position(order, key) == CHOOSE i \in 1..Len(order) : order[i] = key

(* C3: the number of stored entries is at most max_size, right after      *)
(* construction (a load of a persisted store included) and after every    *)
(* call.                                                                   *)
C3_SizeWithinMax == Len(cache.entries) <= max_size

(* C4: a get whose key maps to an entry with expires_at in the past       *)
(* returns None, and after it the entry is no longer stored.               *)
C4_ExpiredNeverReturned ==
    (last.op = "get" /\ last.preExpired)
        => /\ last.result = << >>
           /\ GenerateKey(last.req) \notin Keys(cache.entries)

(* Reached: a get found its entry expired with no sweep run in that call, *)
(* so the lookup itself purged it.                                         *)
C4_Witness ==
    /\ last.op = "get"
    /\ last.preExpired
    /\ operation_count > 0
    /\ cache.stats.misses > 0

(* C5: a set immediately followed by a get of the same request, the TTL   *)
(* not elapsed in between, returns the stored response and not None.       *)
C5_RoundTrip ==
    [][ ( /\ last.op = "set"
          /\ last'.op = "get"
          /\ last'.req = last.req
          /\ now' <= last.expires )
        => last'.result = << ResponseDict(last.response[1]) >> ]_vars

(* C6: whenever set evicts, no evicted entry was used (inserted or        *)
(* overwritten by set, or hit by get) more recently than an entry that    *)
(* survives.                                                               *)
C6_EvictsLeastRecentlyUsed ==
    last.op = "set"
        => \A e \in last.evicted : \A k \in Keys(cache.entries) :
              Position(last.order, e) < Position(last.order, k)

(* C7: from an empty cache, after max_size + 1 sets of pairwise distinct  *)
(* keys with no other call in between and no TTL elapsed, exactly one     *)
(* entry has been evicted, the first inserted, and the other max_size     *)
(* entries are stored.                                                     *)
C7_FirstInsertedEvicted ==
    ( /\ run.valid
      /\ Len(run.sets) = max_size + 1
      /\ \A i \in 1..Len(run.sets) : now <= run.sets[i].expires_at )
        => /\ KeySeq(cache.entries) = Tail([i \in 1..Len(run.sets) |-> run.sets[i].key])
           /\ cache.stats.evictions = run.ev0 + 1

(* Reached: three distinct keys were set into an empty cache of           *)
(* max_size 2 and one entry was evicted.                                   *)
C7_Witness ==
    /\ run.valid
    /\ max_size = 2
    /\ Len(run.sets) = 3
    /\ \A i \in 1..Len(run.sets) : now <= run.sets[i].expires_at
    /\ last.evicted # {}

(* C8: the key passed to set is stored when set returns, and the          *)
(* eviction counter has grown by exactly the number of entries that set   *)
(* removed.                                                                *)
C8_SetKeepsItsKey ==
    [][ (nops' = nops + 1 /\ last'.op = "set")
        => LET key == GenerateKey(last'.req)
           IN /\ key \in Keys(cache'.entries)
              /\ cache'.stats.evictions - cache.stats.evictions
                   = Cardinality((Keys(cache.entries) \cup {key}) \ Keys(cache'.entries)) ]_vars

(* C9 as stated: a get that hits moves the entry to the most recently     *)
(* used position, adds 1 to hits and leaves misses and the set of stored  *)
(* keys unchanged; a get that misses or finds the entry expired adds 1 to *)
(* misses and leaves hits unchanged.                                       *)
C9_GetCountersKeysUnchanged ==
    [][ (nops' = nops + 1 /\ last'.op = "get")
        => IF last'.hit
             THEN /\ cache'.entries[Len(cache'.entries)].key = GenerateKey(last'.req)
                  /\ cache'.stats.hits = cache.stats.hits + 1
                  /\ cache'.stats.misses = cache.stats.misses
                  /\ Keys(cache'.entries) = Keys(cache.entries)
             ELSE /\ cache'.stats.misses = cache.stats.misses + 1
                  /\ cache'.stats.hits = cache.stats.hits ]_vars

(* C9 amended: as above, except that on a hit the stored keys are the     *)
(* keys stored before minus the entries already expired when the periodic *)
(* sweep is due in that call, and are unchanged when it is not due.        *)
C9_GetCountersKeysSwept ==
    [][ (nops' = nops + 1 /\ last'.op = "get")
        => IF last'.hit
             THEN /\ cache'.entries[Len(cache'.entries)].key = GenerateKey(last'.req)
                  /\ cache'.stats.hits = cache.stats.hits + 1
                  /\ cache'.stats.misses = cache.stats.misses
                  /\ Keys(cache'.entries) =
                       IF operation_count + 1 >= auto_cleanup_interval
                         THEN { k \in Keys(cache.entries) :
                                  ~(EntryOf(cache.entries, k).expires_at < now) }
                         ELSE Keys(cache.entries)
             ELSE /\ cache'.stats.misses = cache.stats.misses + 1
                  /\ cache'.stats.hits = cache.stats.hits ]_vars

(* Reached: a get hit its entry, moved it behind another stored entry,    *)
(* and the sweep of that call removed an expired one.                      *)
C9_Witness ==
    /\ last.op = "get"
    /\ last.hit
    /\ last.swept # {}
    /\ cache.stats.hits = 1

(* C15: clear_by_pattern(p) with a valid regular expression removes      *)
(* every entry whose stored query text matches p and no other entry, and  *)
(* returns the number of entries removed; with an invalid regular         *)
(* expression it returns 0 and leaves the store unchanged.                *)
C15_ClearByPattern ==
    [][ (last'.op = "clear_by_pattern" /\ nops' = nops + 1)
            => IF ValidPattern(last'.pattern)
                 THEN /\ cache'.entries =
                            SelectSeq(cache.entries,
                                      LAMBDA e : ~Search(last'.pattern, e.query))
                      /\ last'.count = Len(cache.entries) - Len(cache'.entries)
                 ELSE /\ cache'.entries = cache.entries
                      /\ last'.count = 0 ]_vars

(* Reached: clear_by_pattern("B") removed the one entry whose query holds *)
(* a "b" and kept the other.                                               *)
C15_Witness ==
    /\ last.op = "clear_by_pattern"
    /\ last.pattern = "B"
    /\ last.count = 1
    /\ Len(cache.entries) = 1
    /\ ~Search("B", cache.entries[1].query)

(* C19: every entry that set stores has a non-negative TTL, that is      *)
(* expires_at >= cached_at, for every ttl_hours the constructor accepts.  *)
C19_NonNegativeTtl ==
    \A i \in 1..Len(cache.entries) :
        cache.entries[i].expires_at >= cache.entries[i].cached_at

(* C21: counting get and set calls from construction, every              *)
(* auto_cleanup_interval-th call sweeps the whole store of expired         *)
(* entries, the calls between only count, and no other call touches the    *)
(* counter; so the counter stays below the interval and an expired entry   *)
(* outlives at most auto_cleanup_interval get/set calls.                   *)
C21_AutoCleanup ==
    [][ /\ (nops' = nops + 1 /\ last'.op \in {"get", "set"})
            => IF operation_count + 1 >= auto_cleanup_interval
                 THEN /\ operation_count' = 0
                      /\ \A i \in 1..Len(cache'.entries) :
                            Expired(cache'.entries[i], now)
                                => /\ last'.op = "set"
                                   /\ cache'.entries[i].key = GenerateKey(last'.req)
                                   /\ cache'.entries[i].cached_at = now
                 ELSE operation_count' = operation_count + 1
        /\ (nops' = nops + 1 /\ last'.op \notin {"get", "set", "restart"})
            => operation_count' = operation_count
        /\ (nops' = nops + 1 /\ last'.op = "restart") => operation_count' = 0
        /\ operation_count' >= 0
        /\ operation_count' < auto_cleanup_interval ]_vars

C21_Witness ==
    /\ auto_cleanup_interval = 3
    /\ nops = 3
    /\ operation_count = 0
    /\ last.op \in {"get", "set"}
    /\ last.swept \ {GenerateKey(last.req)} # {}

(***************************************************************************)
(* The compressor and the strategy selectors as specifications.  The      *)
(* cache stays as constructed.                                             *)
(***************************************************************************)
CacheIdle ==
    /\ max_size = 2
    /\ ttl_hours = 1
    /\ auto_cleanup_interval = 3
    /\ now = 0
    /\ cache = DefaultCache(1, 2)
    /\ disk = << >>
    /\ operation_count = 0
    /\ restarts = 0
    /\ nops = 0
    /\ last = NoCall
    /\ used = << >>
    /\ run = NoRun

InitCompress == CacheIdle /\ CompIdle /\ SelIdle /\ OptIdle /\ PureIdle

NextCompress ==
    \/ \E input \in InputTexts : CompressStart(input)
    \/ \E out \in StageOutputs(cstate.text, Len(cstate.stages) + 1) : CompressStage(out)
    \/ CompressFinish

SpecCompress == InitCompress /\ [][NextCompress]_vars

InitStrategy == CacheIdle /\ CompIdle /\ SelIdle /\ OptIdle /\ PureIdle

NextStrategy ==
    \/ \E n \in 0..MaxInputTokens, paid \in BOOLEAN : OptimizerAutoSelect(n, paid)
    \/ \E plan \in {"free", "premium"}, n \in 0..MaxInputTokens : WoosAISelect(plan, n)

SpecStrategy == InitStrategy /\ [][NextStrategy]_vars

InitDetect == CacheIdle /\ CompIdle /\ SelIdle /\ OptIdle /\ PureIdle

NextDetect == \E text \in Texts : Detect(text)

SpecDetect == InitDetect /\ [][NextDetect]_vars

InitKeys == CacheIdle /\ CompIdle /\ SelIdle /\ OptIdle /\ PureIdle

NextKeys == \E a \in KeyRequests, b \in KeyRequests : DeriveKeys(a, b)

SpecKeys == InitKeys /\ [][NextKeys]_vars

InitPatterns == CacheIdle /\ CompIdle /\ SelIdle /\ OptIdle /\ PureIdle

NextPatterns == \E text \in PatternTexts : CompressRuns(text)

SpecPatterns == InitPatterns /\ [][NextPatterns]_vars

InitExample == CacheIdle /\ CompIdle /\ SelIdle /\ OptIdle /\ PureIdle

NextExample ==
    \E chars \in ExampleTexts, deltas \in [1..4 -> {-1, 1}] : CompressExample(chars, deltas)

SpecExample == InitExample /\ [][NextExample]_vars

InitNumbers == CacheIdle /\ CompIdle /\ SelIdle /\ OptIdle /\ PureIdle

NextNumbers == \E chars \in NumberTexts : CompressNumbers(chars)

SpecNumbers == InitNumbers /\ [][NextNumbers]_vars

InitLoad == CacheIdle /\ CompIdle /\ SelIdle /\ OptIdle /\ PureIdle

NextLoad ==
    \/ \E file \in Files : ConstructFile(file)
    \/ \E req \in Requests : GetLoaded(req)
    \/ \E req \in Requests, response \in Responses : SetLoaded(req, response)

SpecLoad == InitLoad /\ [][NextLoad]_vars

InitLicense == CacheIdle /\ CompIdle /\ SelIdle /\ OptIdle /\ PureIdle

NextLicense ==
    \/ \E license_key \in LicenseKeys, at \in Nows : StartWoosAI(license_key, at)
    \/ \E plan \in {"PREMIUM", "FREE"}, d \in 0..MaxDays, at \in Nows :
           GenerateAndStart(plan, d, at)

SpecLicense == InitLicense /\ [][NextLicense]_vars

(* Instances on either plan, and a few chat calls on each.                 *)
StartKeys == { NoLicense, Generate("PREMIUM", 1, [day |-> 0, later |-> TRUE]) }

InitChat == CacheIdle /\ CompIdle /\ SelIdle /\ OptIdle /\ PureIdle

NextChat ==
    \/ \E license_key \in StartKeys : StartWoosAI(license_key, [day |-> 0, later |-> TRUE])
    \/ \E message \in ChatMessages, compress \in BOOLEAN, llm_ok \in BOOLEAN :
           woos.calls < MaxChats /\ Chat(message, compress, llm_ok)

SpecChat == InitChat /\ [][NextChat]_vars

(* Instances on either plan, and chat calls up to and past the limit.      *)
InitQuota == CacheIdle /\ CompIdle /\ SelIdle /\ OptIdle /\ PureIdle

NextQuota ==
    \/ \E license_key \in StartKeys : StartWoosAI(license_key, [day |-> 0, later |-> TRUE])
    \/ \E compress \in BOOLEAN, llm_ok \in BOOLEAN :
           /\ woos.calls < MonthlyLimit(woos.plan) + MaxOver
           /\ Chat([tokens |-> StarterBelow, compressed |-> StarterBelow - 1],
                   compress, llm_ok)

SpecQuota == InitQuota /\ [][NextQuota]_vars

InitDict == CacheIdle /\ CompIdle /\ SelIdle /\ OptIdle /\ PureIdle

NextDict == \E text \in DictTexts : ApplyDict(text)

SpecDict == InitDict /\ [][NextDict]_vars

InitShared == CacheIdle /\ CompIdle /\ SelIdle /\ OptIdle /\ PureIdle

NextShared ==
    \/ \E i \in Managers : SharedConstruct(i)
    \/ \E i \in Managers, req \in Requests, response \in Responses : SharedSet(i, req, response)
    \/ \E i \in Managers, req \in Requests : SharedGet(i, req)
    \/ \E i \in Managers : SharedClear(i)

SpecShared == InitShared /\ [][NextShared]_vars

InitParams == CacheIdle /\ CompIdle /\ SelIdle /\ OptIdle /\ PureIdle

NextParams ==
    \E message \in Messages, strategy \in Strategies,
       compress_input \in BOOLEAN, is_paid_user \in BOOLEAN :
        GetOptimizedParams(message, strategy, compress_input, is_paid_user)

SpecParams == InitParams /\ [][NextParams]_vars

(***************************************************************************)
(* Claims about compress and about strategy selection.                     *)
(***************************************************************************)

(* C1: whatever the stages return, the outcome's final_tokens is at most  *)
(* its original_tokens, its tokens_saved is >= 0, and the returned text   *)
(* has no more tokens than the input.                                      *)
C1_NonRegression ==
    cpc = "done"
        => /\ cresult[2].final_tokens <= cresult[2].original_tokens
           /\ cresult[2].tokens_saved >= 0
           /\ CountTokens(cresult[1]) <= CountTokens(AsText(ctext))

(* Reached: compress returned a successful outcome after rolling back a   *)
(* stage whose output had more tokens, and after accepting another.        *)
C1_Witness ==
    /\ cpc = "done"
    /\ cresult[2].success
    /\ \E i \in 1..4 : cresult[2].stages[i].rolled_back
    /\ cresult[2].tokens_saved > 0

(* C2: for a text that is empty, blank or shorter than 15 characters,     *)
(* compress returns the input text, the outcome record's compressed_text  *)
(* is the input text too, and tokens_saved is 0.                           *)
C2_ShortInputUnchanged ==
    (cpc = "done" /\ (ctext.name = "" \/ ctext.blank \/ ctext.len < 15))
        => /\ cresult[1] = AsText(ctext)
           /\ cresult[2].compressed_text = AsText(ctext)
           /\ cresult[2].tokens_saved = 0

C29_StageSavingsAddUp ==
    /\ cpc = "final" => cstate.original_tokens - cstate.tokens >= 0
    /\ (cpc = "done" /\ ~Skipped(ctext))
         => /\ cresult[2].success
            /\ Len(cresult[2].stages) = 4
            /\ \A i \in 1..4 : cresult[2].stages[i].tokens_saved >= 0
            /\ cresult[2].tokens_saved =
                 cresult[2].stages[1].tokens_saved + cresult[2].stages[2].tokens_saved
                 + cresult[2].stages[3].tokens_saved + cresult[2].stages[4].tokens_saved

(* Reached: an outcome whose first and last stages both saved tokens.      *)
C29_Witness ==
    /\ cpc = "done"
    /\ cresult[2].success
    /\ cresult[2].stages[1].tokens_saved > 0
    /\ cresult[2].stages[4].tokens_saved > 0
    /\ cresult[2].tokens_saved > cresult[2].stages[1].tokens_saved

(***************************************************************************)
(* Claims about the abbreviation detector.                                 *)
(***************************************************************************)

(* C14: _detect_abbreviations returns true exactly when the text holds a  *)
(* whitelisted abbreviation as a token whose left and right neighbours    *)
(* are each a space, a punctuation character or the string edge.          *)
C14_DetectsBoundaryDelimited ==
    LET text == det.text
        Delimiter(k) == k < 1 \/ k > Len(text) \/ text[k] \in {" "} \cup Punctuation
        Token(abbr, k) ==
            /\ k + Len(abbr) - 1 <= Len(text)
            /\ UpperText(SubSeq(text, k, k + Len(abbr) - 1)) = UpperText(abbr)
            /\ Delimiter(k - 1)
            /\ Delimiter(k + Len(abbr))
    IN  det.result = (\E abbr \in GENERAL_PUBLIC_ABBREVIATIONS :
                          \E k \in 1..Len(text) : Token(abbr, k))

(***************************************************************************)
(* Claims about get_optimized_params.                                      *)
(***************************************************************************)

(* C11: in every result of get_optimized_params, uses_abbreviations is    *)
(* false when strategy_used is starter, is the detector's result on the   *)
(* user's message when strategy_used is pro, and is true when             *)
(* strategy_used is premium.                                               *)
C11_AbbreviationPolicy ==
    params.op = "get_optimized_params"
        => /\ params.strategy_used = "starter" => ~params.uses_abbreviations
           /\ params.strategy_used = "pro"
                  => params.uses_abbreviations = DetectAbbreviations(params.message.text)
           /\ params.strategy_used = "premium" => params.uses_abbreviations

(* Reached: a pro result for a message in which the detector finds no     *)
(* abbreviation, so that abbreviations are not used.                       *)
C11_Witness ==
    /\ params.op = "get_optimized_params"
    /\ params.strategy_used = "pro"
    /\ params.message.text = <<"a", "i", "!">>
    /\ ~params.uses_abbreviations

C13_KeyDeterministicInjective ==
    LET Normalized(req) ==
            << req.model, req.messages,
               IF req.temperature = Absent THEN DefaultTemperature ELSE req.temperature,
               IF req.max_tokens = Absent THEN DefaultMaxTokens ELSE req.max_tokens >>
        equal == Normalized(kd.a) = Normalized(kd.b)
    IN  kd.op = "_generate_key"
            => /\ equal <=> kd.key_a = kd.key_b
               /\ equal <=> kd.result # << >>

(***************************************************************************)
(* Claims about pattern and punctuation compression.                       *)
(***************************************************************************)

(* C16: for each mark of the repeated-pattern alphabet, a run of exactly  *)
(* 3 is left unchanged by pattern compression and collapsed to a single   *)
(* mark by punctuation compression; a run of exactly 4 is rewritten to    *)
(* mark*4 by pattern compression; and pattern compression rewrites only   *)
(* runs of 4 or more identical characters.                                 *)
C16_PatternThreshold ==
    LET text == pat.text
        RunOf(n) == /\ Len(text) = n
                    /\ text[1] \in Emoticons \cup Marks \cup Dashes
                    /\ \A i \in 1..n : text[i] = text[1]
        HasRun == \E i \in 1..(Len(text) - 3) : \A j \in i..(i + 3) : text[j] = text[i]
    IN  pat.op = "compress"
            => /\ RunOf(3) => /\ pat.patterns.text = text
                              /\ pat.punctuation.text = << text[1] >>
               /\ RunOf(4) => pat.patterns.text = << text[1], "*", "4" >>
               /\ pat.patterns.text # text => HasRun

(* C17: for an input of at least 15 characters that holds a dictionary   *)
(* entry and ends in a run of four "?", the pipeline records a nonzero    *)
(* dictionary-stage replacement count and its final text ends in exactly  *)
(* one "?", whichever of the pattern and punctuation stages are accepted  *)
(* or rolled back.                                                         *)
C17_ExampleEndsInOneMark ==
    LET input == ex.input
        n == Len(input)
        m == Len(ex.text)
    IN  ( /\ ex.op = "compress"
          /\ \E i \in 1..n : input[i] = "annyeonghaseyo"
          /\ \A i \in (n - 3)..n : input[i] = "?"
          /\ input[n - 4] # "?" )
            => /\ ex.stages[1].replacements > 0
               /\ ex.text[m] = "?"
               /\ ex.text[m - 1] # "?"

(***************************************************************************)
(* Claims about number compression.                                        *)
(***************************************************************************)

(* C18: NumberCompressor.compress rewrites "2024nyeon 1wol" to '24.1 and  *)
(* "10eokwon" to 10e, and no quantity rewritten by an earlier sub-stage   *)
(* (magnitude unit, large number, currency, year) is rewritten a second   *)
(* time by a later one (year, duration unit).                              *)
C18_NumbersOnce ==
    num.op = "compress"
        => /\ num.text = <<"2", "0", "2", "4", "nyeon", " ", "1", "wol">>
                  => num.result.text = <<"'", "2", "4", ".", "1">>
           /\ num.text = <<"1", "0", "eok", "won">>
                  => num.result.text = <<"1", "0", "e">>
           /\ \A pair \in num.result.twice : pair[2] \notin {4, 5}

(***************************************************************************)
(* C20: when the cache file is malformed at load (unparsable, or without   *)
(* "entries" or "stats", or with an entry whose expires_at cannot be       *)
(* read), construction ends normally with no entries stored, and the get   *)
(* or set that follows ends normally.                                      *)
(***************************************************************************)
Malformed(file) ==
    \/ ~file.parsable
    \/ ~file.has_entries
    \/ ~file.has_stats
    \/ \E i \in 1..Len(file.entries) : ~file.entries[i].readable

C20_MalformedFileTolerated ==
    (ld.op # "none" /\ Malformed(ld.file))
        => /\ ld.outcome = "ok"
           /\ ld.op = "__init__" => ld.self.cache.entries = << >>

(***************************************************************************)
(* Claims about WoosAI.                                                    *)
(***************************************************************************)

(* C22: WoosAI starts on plan premium exactly when the key has four parts, *)
(* the prefix WOOSAI, the plan PREMIUM, an expiry date that is not in the  *)
(* past and the signature of plan and expiry; every key that               *)
(* generate("PREMIUM", d) makes with d >= 1 is accepted.  The case of the  *)
(* plan's letters and of the signature's hex digits is not held against    *)
(* the code.                                                               *)
C22_PremiumExactlyWhenValid ==
    woos.op = "__init__"
        => /\ woos.plan = "premium"
                <=> /\ Len(woos.key) = 4
                    /\ woos.key[1] = "WOOSAI"
                    /\ PlanUpper(woos.key[2]) = "PREMIUM"
                    /\ woos.key[3].text = "date"
                    /\ woos.key[3].day >= woos.now.day
                    /\ SignatureUpper(woos.key[4]) = GenerateSignature("PREMIUM", woos.key[3])
           /\ (woos.generated # << >> /\ woos.generated[1] = "PREMIUM" /\ woos.generated[2] >= 1)
                => woos.plan = "premium"

(* C23: on the free plan every chat call that selects a strategy uses      *)
(* starter, whatever the token count of the text sent; on the premium plan *)
(* the strategy follows the thresholds 18 and 60.                          *)
C23_FreePlanAlwaysStarter ==
    (woos.op = "chat" /\ woos.chat.llm)
        => woos.chat.strategy =
             IF woos.plan = "free" THEN "starter"
             ELSE IF woos.chat.input_tokens < 18 THEN "starter"
             ELSE IF woos.chat.input_tokens < 60 THEN "pro"
             ELSE "premium"

(* Reached: a chat on the free plan sent 61 tokens with strategy starter.  *)
C23_Witness ==
    /\ woos.op = "chat"
    /\ woos.plan = "free"
    /\ woos.chat.llm
    /\ woos.chat.input_tokens = 61
    /\ woos.chat.strategy = "starter"
    /\ woos.chat.max_tokens = 2000

(* C30: the chat calls of one instance that reach the LLM client never     *)
(* exceed the plan's monthly_limit, and a chat call made once the counter  *)
(* is past the limit returns an error with content None, without           *)
(* compressing and without calling the client.                             *)
C30_MonthlyLimit ==
    /\ woos.llm_calls <= (IF woos.plan = "free" THEN 1000 ELSE 50000)
    /\ (woos.op = "chat" /\ woos.request_count > (IF woos.plan = "free" THEN 1000 ELSE 50000))
         => /\ woos.chat.error
            /\ woos.chat.content = "None"
            /\ ~woos.chat.compressed
            /\ ~woos.chat.llm

(* Reached: the 1001st chat call of a free instance was refused after     *)
(* 1000 calls had reached the client.                                      *)
C30_Witness ==
    /\ woos.op = "chat"
    /\ woos.plan = "free"
    /\ woos.request_count = 1001
    /\ woos.llm_calls = 1000
    /\ woos.chat.error
    /\ ~woos.chat.llm

(***************************************************************************)
(* Claims about the dictionary stage.                                      *)
(***************************************************************************)

(* C25: no entry's replacement holds the key of an entry applied later in  *)
(* the pass, and in a pass no substitution rewrites units that an earlier  *)
(* substitution of the pass wrote.                                         *)
C25_NoChains ==
    dic.op = "_apply_learning_dict"
        => /\ \A i \in 1..Len(LearningDict), j \in 1..Len(LearningDict) :
                (i < j /\ dic.text = LearningDict[i].long_form)
                    => ~InText(Written(LearningDict[i].short_form, i),
                               LearningDict[j].long_form)
           /\ dic.result.chains = {}

(* C26: when a key is a part of a longer key and the text holds the longer *)
(* key, that occurrence becomes the longer key's short form.               *)
C26_LongestMatchFirst ==
    dic.op = "_apply_learning_dict"
        => \A j \in 1..Len(LearningDict), before \in {<< >>, <<"x">>} :
             ( /\ \E i \in 1..Len(LearningDict) :
                     /\ i # j
                     /\ Len(LearningDict[i].long_form) < Len(LearningDict[j].long_form)
                     /\ InText(Written(LearningDict[j].long_form, 0), LearningDict[i].long_form)
               /\ dic.text = before \o LearningDict[j].long_form )
                 => dic.result.text = before \o LearningDict[j].short_form

(***************************************************************************)
(* Claims about several managers on one store.                             *)
(***************************************************************************)

(* C27: a cache operation that writes the store (set, a get that hits,     *)
(* clear) leaves in it the keys that a manager reading the store at that   *)
(* moment would leave: what was persisted before plus the mutation; and    *)
(* the store is what the writing manager holds (the last write wins).      *)
C27_WriteOnPersisted ==
    [][ ( /\ sh'.n = sh.n + 1
          /\ \/ sh'.op \in {"set", "clear"}
             \/ sh'.op = "get" /\ sh'.result # << >> )
          => LET i == sh'.who
                 fresh == [ cache |-> LoadCache(sh.disk, 1, 3), disk |-> sh.disk,
                            operation_count |-> sh.self[i].operation_count ]
                 expected == IF sh'.op = "set"
                               THEN SetOp(fresh, sh'.req, sh'.response[1], 0, 1, 3, 3)
                             ELSE IF sh'.op = "get"
                               THEN GetOp(fresh, sh'.req, 0, 3).state
                             ELSE ClearOp(fresh)
             IN /\ Len(sh'.disk) = 1
                /\ Keys(sh'.disk[1].entries) = Keys(expected.disk[1].entries)
                /\ sh'.disk = << sh'.self[i].cache >> ]_vars

(***************************************************************************)
(* Claims about the message get_optimized_params returns.                  *)
(***************************************************************************)

(* C28: with compress_input, the user_message returned is the text that    *)
(* compress returned for the message (the message itself when compression  *)
(* is skipped), input_tokens is the count of that text and the automatic   *)
(* strategy is the one selected for that count.                            *)
C28_MessageIsCompressOutput ==
    (params.op = "get_optimized_params" /\ params.compress_input)
        => /\ params.user_message = CompressMessage(params.message, params.input_tokens)[1]
           /\ params.input_tokens
                = CompressMessage(params.message, params.input_tokens)[1].tokens
           /\ params.strategy = "auto"
                => params.strategy_used
                     = AutoSelectStrategy(
                           CompressMessage(params.message, params.input_tokens)[1].tokens,
                           params.is_paid_user)

====
